---- MODULE Spec2Model ----
(***************************************************************************)
(* WebRTC signalling relay: the room/connection registry of                *)
(* WebSocketHandler (src/src/handlers/websocket_handler.py) driven by the  *)
(* per-connection coroutine websocket_endpoint (src/src/main.py).          *)
(*                                                                         *)
(* Every connection is served by one asyncio task.  Tasks are scheduled    *)
(* cooperatively: a task runs alone from one await to the next, so the     *)
(* registry can change under a suspended task only while it waits in       *)
(* accept / send_text / receive_text / close.  `running` is the task that  *)
(* holds the event loop in the middle of such a synchronous stretch.       *)
(***************************************************************************)
EXTENDS Integers, Sequences, FiniteSets, TLC

\* ------------------------------------------------------------------ bounds
NumConns == 3          \* connections (one endpoint task each)
MaxMsgs  == 1          \* message-loop turns that end with a frame read or a denial, in total
MaxDrops == 1          \* joined peers that go away without a close handshake
MaxRejects == 1        \* connections whose first frame does not authenticate
MaxTurns == 2
MaxClock == 601
MaxCalls == 3
MaxRateClock == 121          \* message-loop turns of a session that is followed to its end

Conns  == 1..NumConns
NoConn == 0            \* Python None where a WebSocket is expected
None   == "None"       \* Python None where a string is expected
Rooms  == {"r1", "r2"}

\* uuid4() of main.py:241 never collides: one fresh value per connection.
GenIds == <<"u1", "u2", "u3", "u4", "u5">>
\* the `sub` of the token a client holds (its username once verified)
TokenSub == <<"alice", "bob", "bob", "carol", "dave">>
\* client ids a client may put in its auth_token frame ("" and absent are None)
SuppliedIds == {None, "a"}
ClientIds == SuppliedIds \ {None}
\* a client id no connection has
AbsentId == "zz"

RelayTypes == {"offer", "answer", "ice_candidate"}

\* the source addresses (websocket.client.host, main.py:167): the first
\* connection comes from one address, the others share another
Ips == {"ip1", "ip2"}
client_ip(c) == IF c = 1 THEN "ip1" ELSE "ip2"

\* the code every websocket.close of the endpoint passes (main.py:179-264)
PolicyViolation == 1008
\* DDoSProtection.__init__ (rate_limiter.py:31-33)
max_messages_per_minute == 60
max_auth_failures == 5
auth_lockout_duration == 300
message_window == 60

VARIABLES
    rooms,                \* self.rooms: room_id -> set of connections
    roomGen,              \* identity of the set object held under each room_id
    connection_metadata,  \* self.connection_metadata: connection -> dict
    pc,                   \* where each endpoint coroutine stands
    stack,                \* the handler calls each task is inside (innermost last)
    running,              \* the task holding the event loop, NoConn at an await
    dead,                 \* the transport is gone: send_text raises
    stalled,              \* peers that stopped reading: a send_text to them never returns
    speakers,             \* peers that send signalling frames once joined
    connected,            \* the endpoint's local `connected`
    client_id,            \* the endpoint's local `client_id`
    pathRoom,             \* the endpoint's room_id (URL path segment)
    closeReq,             \* the reason the endpoint closed the transport with
    budget,               \* inbound frames the joined clients may still send
    drops, rejects,       \* peers gone and first frames refused so far
    failed_auth,          \* ddos_protection.failed_auth: per address, the deque of the
                          \* times of its failures
    message_counts,       \* ddos_protection.message_counts: per address, the deque of
                          \* the times of its admitted frames
    now,                  \* time.time(), in seconds
    connections_per_ip,   \* ddos_protection.connections_per_ip: address -> connection ids
    \* ---- observation only
    event,                \* what the last step did that a peer or caller can see
    cred,                 \* the auth frame each connection presented
    joins, leaves,        \* per room: registrations and removals performed
    invoked,              \* the endpoint called WebSocketHandler.connect
    notified,             \* per departed connection, who was sent its user_left
    lastJoin,             \* per room and client-supplied id, who joined with it last
    recorded,             \* per address, the failures recorded since the last clear
    admitted,             \* per address, the times of all frames ever admitted
    reported              \* per connection, the error texts handle_message reported to
                          \* it for frames that were not the session's last

vars == <<rooms, roomGen, connection_metadata, pc, stack, running, dead, stalled, speakers,
          connected, client_id, pathRoom, closeReq, budget, drops, rejects,
          failed_auth, connections_per_ip, event, cred, joins, leaves, invoked, notified, lastJoin,
          reported, message_counts, now, recorded, admitted>>

\* the clock and what only the admission checks of LockoutSpec and RateSpec use
clockVars == <<message_counts, now, admitted>>

\* ---------------------------------------------------------------- messages
\* The JSON objects send_text carries.  `about` and `mid` are not on the
\* wire: the connection whose join, departure or inbound frame caused the
\* message, and the number of that inbound frame (counted from the last
\* one); nor is `arg` of a relayed message, the `to` of the frame it relays.
Msg(t) == [type |-> t, room_id |-> None, client_id |-> None, username |-> None,
           from |-> None, connected_users |-> 0, users |-> {}, payload |-> None,
           message |-> None, arg |-> None,
           about |-> NoConn, mid |-> 0]

\* a server that greets with the confirmation instead of the challenge
AuthSuccessUnasked == Msg("auth_success")

\* main.py:196-199
AuthRequiredMsg == Msg("auth_required")

AuthSuccessMsg(user, cid) ==
    [Msg("auth_success") EXCEPT !.username = user, !.client_id = cid]

UsersInRoomMsg(existing, ws) ==
    [Msg("users_in_room") EXCEPT !.users = existing, !.about = ws]

MembershipMsg(t, room, user, cid, n, ws) ==
    [Msg(t) EXCEPT !.room_id = room, !.username = user, !.client_id = cid,
                   !.connected_users = n, !.about = ws]

RelayMsg(t, payload, from, user, sender, mid) ==
    [Msg(t) EXCEPT !.payload = payload, !.from = from, !.username = user,
                   !.about = sender, !.mid = mid]

ErrorMsg(text, arg, sender, mid) ==
    [Msg("error") EXCEPT !.message = text, !.arg = arg, !.about = sender, !.mid = mid]

\* the text of the error handle_message's else branch reports (line 131,
\* which appends the type)
UnknownType == "Unknown message type"

\* the text handle_message's except clause reports (line 138)
InternalError == "Internal server error"

PongMsg(sender, mid) == [Msg("pong") EXCEPT !.about = sender, !.mid = mid]

\* ------------------------------------------------------------------ events
NoEvent == [kind |-> "none"]

\* send_text(m) on connection `to` was called by task `by` and did not raise;
\* again: `to` had been sent a user_left about the same departure before
SendEvent(by, to, m, again) ==
    [kind |-> "send", by |-> by, to |-> to, msg |-> m, again |-> again]

\* send_text(m) on connection `to` raised
SendFailedEvent(by, to, m) == [kind |-> "send_failed", by |-> by, to |-> to, msg |-> m]

\* a broadcast_to_room call of task `by` ended: it returned, or an exception
\* left it (raised)
BcastEvent(by, f, raised) ==
    [kind |-> "bcast_end", by |-> by, raised |-> raised, room |-> f.room,
     type |-> f.msg.type, excl |-> f.excl, orig |-> f.orig,
     sent |-> f.sent, failed |-> f.failed]

\* websocket.close(code, reason) was called by the endpoint of connection `by`
CloseEvent(by, code, reason) == [kind |-> "close", by |-> by, code |-> code, reason |-> reason]

\* json.loads raised on a frame the endpoint of connection `by` had read in
\* its message loop (main.py:269)
MalformedEvent(by) == [kind |-> "malformed", by |-> by]

\* list_rooms returned `result` (main.py:315-318)
RoomsListEvent(result) == [kind |-> "rooms_list", result |-> result]

\* get_room_info(room) returned `result` (main.py:307-313, which answers
\* None with status 404)
RoomInfoEvent(room, result) == [kind |-> "room_info", room |-> room, result |-> result]

\* ---------------------------------------------------------------- registry
Members(rms, room) == IF room \in DOMAIN rms THEN rms[room] ELSE {}

AllMembers(rms) == UNION {rms[r] : r \in DOMAIN rms}

\* a connect that adds the connection to every room there is
ConnectRoomsEverywhere(rms, room, ws) ==
    [r \in DOMAIN rms \cup {room} |-> Members(rms, r) \cup {ws}]

\* connect, lines 36-40: create the room's set if absent, add the connection
ConnectRooms(rms, room, ws) ==
    [r \in DOMAIN rms \cup {room} |->
        IF r = room THEN Members(rms, room) \cup {ws} ELSE rms[r]]

\* a connect that stamps the joiner's client_id on every entry
ConnectMetaStampAll(md, ws, room, user, cid) ==
    [w \in DOMAIN md \cup {ws} |->
        IF w = ws THEN [room_id |-> room, username |-> user, client_id |-> cid]
        ELSE [md[w] EXCEPT !.client_id = cid]]

\* connect, lines 42-48
ConnectMeta(md, ws, room, user, cid) ==
    [w \in DOMAIN md \cup {ws} |->
        IF w = ws THEN [room_id |-> room, username |-> user, client_id |-> cid]
        ELSE md[w]]

\* the list entry connect appends for member w (lines 57-60); `ws` is not on
\* the wire: it keeps the entries of two members with equal pairs apart, as
\* the list does
UserEntry(md, w) ==
    [ws |-> w, client_id |-> md[w].client_id, username |-> md[w].username]

\* a snapshot that forgets to leave the joining connection out
ExistingUsersWithSelf(rms, md, room, ws) ==
    {UserEntry(md, w) : w \in {x \in Members(rms, room) : x \in DOMAIN md}}

\* connect, lines 52-60: (client_id, username) of the other members
ExistingUsers(rms, md, room, ws) ==
    {UserEntry(md, w) : w \in {x \in Members(rms, room) : x # ws /\ x \in DOMAIN md}}

\* a disconnect that notifies before it removes: the set still holds the
\* connection when user_left is broadcast
DisconnectRoomsLater(rms, room, ws) == rms

\* disconnect without the clean-up of lines 91-93
DisconnectRoomsKeepEmpty(rms, room, ws) ==
    IF room \notin DOMAIN rms THEN rms
    ELSE [rms EXCEPT ![room] = rms[room] \ {ws}]

\* disconnect, lines 87-93: discard, and delete the room once it is empty
DisconnectRooms(rms, room, ws) ==
    IF room \notin DOMAIN rms THEN rms
    ELSE IF rms[room] \ {ws} = {}
         THEN [r \in DOMAIN rms \ {room} |-> rms[r]]
         ELSE [rms EXCEPT ![room] = rms[room] \ {ws}]

\* disconnect without lines 95-97
DisconnectMetaKeep(md, ws) == md

\* disconnect, lines 95-97
DisconnectMeta(md, ws) == [w \in DOMAIN md \ {ws} |-> md[w]]

\* disconnect, lines 81-83: metadata.get(...) of a possibly unregistered connection
MetaGet(md, ws, field) == IF ws \in DOMAIN md THEN md[ws][field] ELSE None

\* a lookup that searches every room instead of the sender's
FindInAnyRoom(rms, md, room, cid) ==
    {w \in AllMembers(rms) : w \in DOMAIN md /\ md[w].client_id = cid}

\* find_websocket_by_client_id: the members the loop of lines 237-240 can return
\* (the first match in the set's iteration order); empty when it returns None
FindByClientId(rms, md, room, cid) ==
    {w \in Members(rms, room) : w \in DOMAIN md /\ md[w].client_id = cid}

\* ----------------------------------------------------------- introspection
\* the dictionary get_room_info and list_rooms build for a room
RoomEntry(rms, room) ==
    [room_id |-> room, connected_users |-> Cardinality(Members(rms, room)),
     is_active |-> TRUE]

\* get_room_info, websocket_handler.py:264-273
GetRoomInfo(rms, room) ==
    IF room \notin DOMAIN rms THEN None ELSE RoomEntry(rms, room)

\* the entries of the room ids in `ids`, one after the other.  The order of
\* the list (the dictionary's insertion order) is not modelled.
RECURSIVE RoomList(_, _)
RoomList(ids, rms) ==
    IF ids = {} THEN << >>
    ELSE LET r == CHOOSE x \in ids : TRUE IN
         << RoomEntry(rms, r) >> \o RoomList(ids \ {r}, rms)

\* a listing of every room id the server has ever seen
ListRoomsAnyId(rms) == RoomList(Rooms, rms)

\* list_rooms, websocket_handler.py:275-284
ListRooms(rms) == RoomList(DOMAIN rms, rms)

\* ------------------------------------------------------ admission control
\* DDoSProtection (rate_limiter.py).  failed_auth and message_counts hold,
\* per address, the deque of time stamps (an address without a key holds
\* the empty deque).
\* the loops of lines 55-56 and 82-83: entries are dropped from the left
\* while the leftmost is older than age
RECURSIVE DropOld(_, _, _)
DropOld(q, t, age) ==
    IF q # << >> /\ t - Head(q) > age THEN DropOld(Tail(q), t, age) ELSE q

\* an is_ip_blocked that keeps what is older than the lockout
CleanNothing(fa, ip) == fa

\* is_ip_blocked, lines 51-56: what the call leaves in the address's deque
CleanFailures(fa, ip) == [fa EXCEPT ![ip] = DropOld(@, now, auth_lockout_duration)]

\* is_ip_blocked, lines 58-63
IsIpBlocked(fa, ip) == Len(CleanFailures(fa, ip)[ip]) >= max_auth_failures

\* an endpoint that never reports a failure
RecordNothing(fa, ip) == fa

\* record_auth_failure, lines 65-69
RecordAuthFailure(fa, ip) == [fa EXCEPT ![ip] = Append(@, now)]

\* clear_auth_failures, lines 71-74
ClearAuthFailures(fa, ip) == [fa EXCEPT ![ip] = << >>]

\* the endpoint's connection_id (main.py:183): a fresh uuid4 for each call
connection_id(c) == c

\* add_connection, lines 94-100 (the set is made on first use, line 23)
AddConnection(cpi, ip, id) ==
    [i \in DOMAIN cpi \cup {ip} |->
        IF i = ip THEN (IF ip \in DOMAIN cpi THEN cpi[ip] ELSE {}) \cup {id} ELSE cpi[i]]

\* a remove_connection that keeps the emptied set, without lines 106-107
RemoveConnectionKeepEmpty(cpi, ip, id) ==
    IF ip \notin DOMAIN cpi THEN cpi ELSE [cpi EXCEPT ![ip] = cpi[ip] \ {id}]

\* remove_connection, lines 102-107
RemoveConnection(cpi, ip, id) ==
    IF ip \notin DOMAIN cpi THEN cpi
    ELSE IF cpi[ip] \ {id} = {}
         THEN [i \in DOMAIN cpi \ {ip} |-> cpi[i]]
         ELSE [cpi EXCEPT ![ip] = cpi[ip] \ {id}]

\* check_message_rate, lines 78-83: what the call leaves of the address's
\* deque before it decides
CleanMessages(mc, ip) == [mc EXCEPT ![ip] = DropOld(@, now, message_window)]

\* a limiter that admits every frame
CheckMessageRateAdmitAll(n) == TRUE

\* check_message_rate, lines 76-92: n is the number of time stamps of the
\* address that are no older than a minute; on TRUE one more is recorded
CheckMessageRate(n) == n < max_messages_per_minute

\* the window contents the check is called with: one below the limit, and at it
WindowCounts == {max_messages_per_minute - 1, max_messages_per_minute}

\* the close code passed with each reason (main.py:179,207,215,224,232,253,264)
CloseCode(reason) == PolicyViolation

\* the reason a blocked address is closed with (main.py:179)
BlockedReason == "IP blocked due to security violations"

\* ------------------------------------------------------------ call frames
Top(s) == s[Len(s)]
Pop(s) == SubSeq(s, 1, Len(s) - 1)
SetTop(s, f) == [s EXCEPT ![Len(s)] = f]

\* connect suspended in (or about to run) its tail, lines 62-76
ConnectFrame(pos, existing) == [k |-> "connect", pos |-> pos, existing |-> existing]

\* broadcast_to_room, lines 244-262.  The for loop of line 252 iterates the
\* set object itself: gen/orig are the object and its content when the
\* iterator was made, visited what it has yielded, cur the recipient being
\* sent to, disc the local disconnected_clients still to clean up.
BcastFrame(room, msg, excl, gen, orig) ==
    [k |-> "bcast", pos |-> "next", room |-> room, msg |-> msg, excl |-> excl,
     gen |-> gen, orig |-> orig, visited |-> {},
     cur |-> NoConn, disc |-> {}, sent |-> {}, failed |-> {}]

\* disconnect waiting for its user_left broadcast, lines 101-109; reg tells
\* whether the connection had metadata when disconnect was called (line 81)
DiscFrame(ws, room, reg) ==
    [k |-> "disc", pos |-> "wait", ws |-> ws, room |-> room, reg |-> reg]

\* handle_message inside its try block (lines 118-132) or its except block
\* (lines 134-139, pos = "err"); fr is the inbound frame, reg whether the
\* sender was registered when it was dispatched
HandleFrame(pos, target, msg, fr, reg) ==
    [k |-> "handle", pos |-> pos, target |-> target, msg |-> msg,
     fr |-> fr, reg |-> reg]

\* a server whose sends wait for every peer that has stopped reading
SendEndsWhenNoneStalled(w) == dead[w] \/ stalled = {}

\* send_text on connection w comes back, by returning or by raising: the
\* peer reads, or the transport is gone
SendEnds(w) == dead[w] \/ w \notin stalled

\* Where a task stands at an await (the event loop is free) rather than in
\* the middle of synchronous code.
AtAwait(p, stk) ==
    IF stk = <<>> THEN p # "finally"
    ELSE LET f == Top(stk) IN
         \/ f.k = "bcast" /\ f.pos = "send"
         \/ f.k = "connect" /\ f.pos = "users"
         \/ f.k = "handle" /\ f.pos \in {"send", "err"}

Turn(c) == running \in {NoConn, c}

Yield(c) == running' = IF AtAwait(pc'[c], stack'[c]) THEN NoConn ELSE c

\* a handle_message without its except clause
RaiseUncaught(c) ==
    /\ stack' = [stack EXCEPT ![c] = <<>>]
    /\ pc' = [pc EXCEPT ![c] = IF pc[c] = "cleanup" THEN "done" ELSE "finally"]
    /\ dead' = [dead EXCEPT ![c] = (pc[c] = "cleanup") \/ @]
    /\ connections_per_ip' =
           IF pc[c] = "cleanup"
           THEN RemoveConnection(connections_per_ip, client_ip(c), connection_id(c))
           ELSE connections_per_ip

\* An exception leaves the handler frames of task c.  Inside handle_message's
\* try block it is caught there (websocket_handler.py:134); inside the
\* finally block's own try it is logged (main.py:297-301) and the endpoint
\* ends; anywhere else the endpoint's except clauses (main.py:274-289) take
\* it and the finally block runs next.
Raise(c) ==
    IF pc[c] = "handle" /\ stack[c] # <<>> /\ stack[c][1].pos # "err"
    THEN /\ stack' = [stack EXCEPT ![c] = << [stack[c][1] EXCEPT !.pos = "err"] >>]
         /\ pc' = pc
         /\ dead' = dead
         /\ connections_per_ip' = connections_per_ip
    ELSE /\ stack' = [stack EXCEPT ![c] = <<>>]
         /\ pc' = [pc EXCEPT ![c] = IF pc[c] = "cleanup" THEN "done" ELSE "finally"]
         /\ dead' = [dead EXCEPT ![c] = (pc[c] = "cleanup") \/ @]
         /\ connections_per_ip' =
                IF pc[c] = "cleanup"
                THEN RemoveConnection(connections_per_ip, client_ip(c), connection_id(c))
                ELSE connections_per_ip

\* A broadcast has returned; stk is task c's stack without it.  Its caller
\* runs on: disconnect returns to the clean-up loop of an outer broadcast or
\* to the finally block (main.py:298-304), connect returns to the endpoint
\* (main.py:257-258), handle_message returns to the message loop (main.py:272).
\* Once the endpoint has returned the server closes the transport; the last
\* statement of the finally block is remove_connection (main.py:304).
Return(c, stk) ==
    LET parent == Top(stk) IN
    IF parent.k = "disc"
    THEN /\ stack' = [stack EXCEPT ![c] = Pop(stk)]
         /\ pc' = [pc EXCEPT ![c] = IF Pop(stk) = <<>> THEN "done" ELSE @]
         /\ dead' = [dead EXCEPT ![c] = (Pop(stk) = <<>>) \/ @]
         /\ connected' = connected
         /\ connections_per_ip' =
                IF Pop(stk) = <<>>
                THEN RemoveConnection(connections_per_ip, client_ip(c), connection_id(c))
                ELSE connections_per_ip
    ELSE /\ stack' = [stack EXCEPT ![c] = <<>>]
         /\ pc' = [pc EXCEPT ![c] = "recv"]
         /\ dead' = dead
         /\ connections_per_ip' = connections_per_ip
         /\ connected' = [connected EXCEPT ![c] = (parent.k = "connect") \/ @]

\* The registry part of disconnect(ws, room), lines 80-97.
DoDisconnect(ws, room) ==
    /\ rooms' = DisconnectRooms(rooms, room, ws)
    /\ connection_metadata' = DisconnectMeta(connection_metadata, ws)
    /\ roomGen' = roomGen
    /\ leaves' = IF ws \in Members(rooms, room)
                 THEN [leaves EXCEPT ![room] = @ + 1] ELSE leaves
    /\ joins' = joins
    /\ lastJoin' = lastJoin

\* The tail of disconnect(ws, room), lines 99-112: the frames of the
\* user_left broadcast, none when the room is gone.
LeftFrames(ws, room) ==
    IF room \in DOMAIN rooms'
    THEN << DiscFrame(ws, room, ws \in DOMAIN connection_metadata),
            BcastFrame(room,
                       MembershipMsg("user_left", room,
                                     MetaGet(connection_metadata, ws, "username"),
                                     MetaGet(connection_metadata, ws, "client_id"),
                                     Cardinality(rooms'[room]), ws),
                       NoConn, roomGen[room], rooms'[room]) >>
    ELSE <<>>

\* What the set iterator of line 252 sees of its set object now: the object
\* is emptied before rooms drops it (lines 88-92), and a later join under
\* the same room_id makes a new object.
IterSet(f) ==
    IF f.room \in DOMAIN rooms /\ roomGen[f.room] = f.gen THEN rooms[f.room] ELSE {}


\* ------------------------------------------------------------- the inputs
\* The first frame of a client (main.py:203-212).  lookup is what awaiting
\* user_manager.get_user yields for the token's subject (main.py:229-230,250):
\* an active user, an inactive one, no user, or an exception.  With the
\* UserManager of jwt_handler.py:118, whose get_user is no coroutine, the
\* await itself raises TypeError, which is the outcome "raises".
AuthFrame(type, token, cid, lookup) ==
    [type |-> type, token |-> token, clientId |-> cid, lookup |-> lookup]

NoAuthFrame == AuthFrame(None, None, None, None)

AuthFrames ==
    {AuthFrame("malformed", None, None, None),
     AuthFrame("offer", "valid", None, "active"),
     AuthFrame("auth_token", "missing", None, None),
     AuthFrame("auth_token", "invalid", None, None)}
    \cup {AuthFrame("auth_token", "valid", None, l) : l \in {"inactive", "unknown", "raises"}}
    \cup {AuthFrame("auth_token", "valid", i, "active") : i \in SuppliedIds}

\* an endpoint that does not look at the type of the first frame (main.py:206)
AuthVerdictNoTypeCheck(a) ==
    IF a.type = "malformed" THEN "raise"
    ELSE IF a.token # "valid" THEN "Invalid token"
    ELSE IF a.lookup = "raises" THEN "Authentication failed"
    ELSE IF a.lookup # "active" THEN "User not found or inactive"
    ELSE "ok"

\* an endpoint that does not look at is_active (main.py:230)
AuthVerdictNoActiveCheck(a) ==
    IF a.type = "malformed" THEN "raise"
    ELSE IF a.type # "auth_token" THEN "Authentication required"
    ELSE IF a.token # "valid" THEN "Invalid token"
    ELSE IF a.lookup = "raises" THEN "Authentication failed"
    ELSE IF a.lookup = "unknown" THEN "User not found or inactive"
    ELSE "ok"

\* main.py:204-254: what the endpoint does with the first frame
AuthVerdict(a) ==
    IF a.type = "malformed" THEN "raise"
    ELSE IF a.type # "auth_token" THEN "Authentication required"
    ELSE IF a.token = "missing" THEN "Invalid token"
    ELSE IF a.token # "valid" THEN "Invalid token"
    ELSE IF a.lookup = "raises" THEN "Authentication failed"
    ELSE IF a.lookup # "active" THEN "User not found or inactive"
    ELSE "ok"

\* the verdicts reached through ddos_protection.record_auth_failure
\* (main.py:214,223,231,251)
RecordedVerdicts == {"Invalid token", "User not found or inactive", "Authentication failed"}

\* the reasons of the closes of the authentication phase (main.py:207-253)
AuthCloseReasons == {"Authentication required"} \cup RecordedVerdicts

\* The frames a joined client may send (main.py:268-269), a second
\* auth_token among them.  `to` ranges over
\* the client ids in use and one id nobody has; an empty `to` is falsy like
\* an absent one (websocket_handler.py:154).
ToValues == {None, AbsentId}
            \cup {connection_metadata[w].client_id : w \in DOMAIN connection_metadata}

InFrames ==
    [type : RelayTypes, to : ToValues]
    \cup [type : {"ping", "bogus", "auth_token", "malformed"}, to : {None}]

\* The room each connection asks for.  Room names are interchangeable, so
\* the first connections share r1 and the last one is in r1 or in r2.
PathRooms == {p \in [Conns -> Rooms] : \A c \in Conns : c < NumConns => p[c] = "r1"}

\* ------------------------------------------------------------------- init
\* connections_per_ip while the endpoints of the connections cs are running
\* (main.py:186)
Tracked(cs) ==
    [ip \in {client_ip(c) : c \in cs} |-> {connection_id(c) : c \in {d \in cs : client_ip(d) = ip}}]

\* A server without a room and without metadata.  The connections of
\* `arriving` will be opened against it, the others never are; joined
\* clients send `frames` signalling frames in total.
InitEndpoints(arriving, frames) ==
    /\ rooms = << >>
    /\ roomGen = [r \in Rooms |-> 0]
    /\ connection_metadata = << >>
    /\ pc = [c \in Conns |-> IF c \in arriving THEN "start" ELSE "absent"]
    /\ stack = [c \in Conns |-> << >>]
    /\ running = NoConn
    /\ dead = [c \in Conns |-> FALSE]
    /\ stalled = {}
    /\ speakers = Conns
    /\ connected = [c \in Conns |-> FALSE]
    /\ client_id = [c \in Conns |-> None]
    /\ pathRoom \in PathRooms
    /\ \A c \in Conns \ arriving : pathRoom[c] = "r1"
    /\ closeReq = [c \in Conns |-> None]
    /\ budget = frames
    /\ drops = 0
    /\ rejects = 0
    /\ connections_per_ip = << >>
    /\ lastJoin = [r \in Rooms |-> [i \in ClientIds |-> NoConn]]
    /\ event = NoEvent
    /\ cred = [c \in Conns |-> NoAuthFrame]
    /\ joins = [r \in Rooms |-> 0]
    /\ leaves = [r \in Rooms |-> 0]
    /\ invoked = [c \in Conns |-> FALSE]
    /\ notified = [c \in Conns |-> {}]
    /\ reported = [c \in Conns |-> {}]

\* DDoSProtection.__init__, rate_limiter.py:21-27, at time 0
InitLimiter ==
    /\ failed_auth = [ip \in Ips |-> << >>]
    /\ message_counts = [ip \in Ips |-> << >>]
    /\ now = 0
    /\ recorded = [ip \in Ips |-> 0]
    /\ admitted = [ip \in Ips |-> << >>]

InitServer(arriving, frames) == InitEndpoints(arriving, frames) /\ InitLimiter

\* The server after every connection has authenticated and joined its room
\* and each endpoint waits in its message loop (main.py:268): what connect
\* (websocket_handler.py:36-48) has stored by then.
InitJoined ==
    /\ pathRoom \in PathRooms
    /\ cred \in [Conns -> {AuthFrame("auth_token", "valid", i, "active") : i \in SuppliedIds}]
    /\ client_id = [c \in Conns |->
                       IF cred[c].clientId = None THEN GenIds[c] ELSE cred[c].clientId]
    /\ rooms = [r \in {pathRoom[c] : c \in Conns} |-> {c \in Conns : pathRoom[c] = r}]
    /\ roomGen = [r \in Rooms |-> IF r \in DOMAIN rooms THEN 1 ELSE 0]
    /\ connection_metadata =
           [c \in Conns |-> [room_id |-> pathRoom[c], username |-> TokenSub[c],
                             client_id |-> client_id[c]]]
    /\ pc = [c \in Conns |-> "recv"]
    /\ stack = [c \in Conns |-> << >>]
    /\ running = NoConn
    /\ dead = [c \in Conns |-> FALSE]
    /\ stalled = {}
    /\ speakers = Conns
    /\ connected = [c \in Conns |-> TRUE]
    /\ closeReq = [c \in Conns |-> None]
    /\ budget = MaxMsgs
    /\ drops = 0
    /\ rejects = 0
    /\ failed_auth = [ip \in Ips |-> << >>]
    /\ message_counts = [ip \in Ips |-> << >>]
    /\ now = 0
    /\ recorded = [ip \in Ips |-> 0]
    /\ admitted = [ip \in Ips |-> << >>]
    /\ connections_per_ip = Tracked(Conns)
    /\ lastJoin \in [Rooms -> [ClientIds -> Conns \cup {NoConn}]]
    /\ \A r \in Rooms, i \in ClientIds :
          LET with == {c \in Conns : pathRoom[c] = r /\ client_id[c] = i} IN
          IF with = {} THEN lastJoin[r][i] = NoConn ELSE lastJoin[r][i] \in with
    /\ event = NoEvent
    /\ joins = [r \in Rooms |-> Cardinality({c \in Conns : pathRoom[c] = r})]
    /\ leaves = [r \in Rooms |-> 0]
    /\ invoked = [c \in Conns |-> TRUE]
    /\ notified = [c \in Conns |-> {}]
    /\ reported = [c \in Conns |-> {}]

\* A session followed to its end: all connections but the last have joined
\* r1 under generated ids and wait in their message loops, the last one is
\* about to be opened; the first peer will send MaxTurns frames; at most
\* one of the other joined peers has stopped reading.
InitSession ==
    LET joined == 1 .. (NumConns - 1) IN
    /\ pathRoom \in PathRooms
    /\ cred = [c \in Conns |-> IF c \in joined
                                THEN AuthFrame("auth_token", "valid", None, "active")
                                ELSE NoAuthFrame]
    /\ client_id = [c \in Conns |-> IF c \in joined THEN GenIds[c] ELSE None]
    /\ rooms = [r \in {"r1"} |-> joined]
    /\ roomGen = [r \in Rooms |-> IF r = "r1" THEN 1 ELSE 0]
    /\ connection_metadata =
           [c \in joined |-> [room_id |-> "r1", username |-> TokenSub[c],
                              client_id |-> GenIds[c]]]
    /\ pc = [c \in Conns |-> IF c \in joined THEN "recv" ELSE "start"]
    /\ stack = [c \in Conns |-> << >>]
    /\ running = NoConn
    /\ dead = [c \in Conns |-> FALSE]
    /\ stalled \in {{}} \cup {{c} : c \in joined \ {1}}
    /\ speakers = {1}
    /\ connected = [c \in Conns |-> c \in joined]
    /\ closeReq = [c \in Conns |-> None]
    /\ budget = MaxTurns
    /\ drops = 0
    /\ rejects = 0
    /\ failed_auth = [ip \in Ips |-> << >>]
    /\ message_counts = [ip \in Ips |-> << >>]
    /\ now = 0
    /\ recorded = [ip \in Ips |-> 0]
    /\ admitted = [ip \in Ips |-> << >>]
    /\ connections_per_ip = Tracked(joined)
    /\ lastJoin = [r \in Rooms |-> [i \in ClientIds |-> NoConn]]
    /\ event = NoEvent
    /\ joins = [r \in Rooms |-> IF r = "r1" THEN NumConns - 1 ELSE 0]
    /\ leaves = [r \in Rooms |-> 0]
    /\ invoked = [c \in Conns |-> c \in joined]
    /\ notified = [c \in Conns |-> {}]
    /\ reported = [c \in Conns |-> {}]

\* Three situations: every connection arrives at a fresh server and the
\* joined clients stay silent; all but one arrive and signalling frames are
\* sent; all have joined and signalling frames are sent.
Init ==
    \/ InitServer(Conns, 0)
    \/ InitServer(1 .. (NumConns - 1), MaxMsgs)
    \/ InitJoined

regVars   == <<rooms, roomGen, connection_metadata, joins, leaves, lastJoin>>
localVars == <<connected, client_id, pathRoom, closeReq>>
envVars   == <<budget, drops, rejects>>

\* --------------------------------------------------------- the endpoint
\* main.py:177-200: a blocked address is closed at once and the endpoint
\* returns; otherwise the handshake is accepted and the authentication
\* challenge sent, unless the peer is already gone
Accept(c) ==
    /\ Turn(c) /\ pc[c] = "start" /\ SendEnds(c)
    /\ IF IsIpBlocked(failed_auth, client_ip(c))
       THEN /\ pc' = [pc EXCEPT ![c] = "done"]
            /\ event' = CloseEvent(c, CloseCode(BlockedReason), BlockedReason)
            /\ dead' = [dead EXCEPT ![c] = TRUE]
            /\ connections_per_ip' = connections_per_ip
       ELSE /\ connections_per_ip' =
                  AddConnection(connections_per_ip, client_ip(c), connection_id(c))
            /\ \/ /\ pc' = [pc EXCEPT ![c] = "recv_auth"]
                  /\ event' = SendEvent(c, c, AuthRequiredMsg, FALSE)
                  /\ dead' = dead
               \/ /\ pc' = [pc EXCEPT ![c] = "finally"]
                  /\ event' = SendFailedEvent(c, c, AuthRequiredMsg)
                  /\ dead' = [dead EXCEPT ![c] = TRUE]
    /\ failed_auth' = CleanFailures(failed_auth, client_ip(c))
    /\ stack' = stack
    /\ Yield(c)
    /\ UNCHANGED <<clockVars, stalled, speakers, reported>>
    /\ UNCHANGED <<regVars, localVars, envVars, cred, invoked, notified, recorded>>

\* websocket_handler.py:30-60, called at main.py:257: connect registers the
\* connection and collects the members already there
DoConnect(c, room, user, cid) ==
    /\ rooms' = ConnectRooms(rooms, room, c)
    /\ roomGen' = IF room \in DOMAIN rooms THEN roomGen
                  ELSE [roomGen EXCEPT ![room] = @ + 1]
    /\ connection_metadata' = ConnectMeta(connection_metadata, c, room, user, cid)
    /\ joins' = [joins EXCEPT ![room] = @ + 1]
    /\ leaves' = leaves
    /\ lastJoin' = IF cid \in ClientIds
                   THEN [lastJoin EXCEPT ![room][cid] = c] ELSE lastJoin
    /\ invoked' = [invoked EXCEPT ![c] = TRUE]
    /\ LET existing == ExistingUsers(rooms', connection_metadata', room, c) IN
       stack' = [stack EXCEPT ![c] =
           << ConnectFrame(IF existing # {} THEN "users" ELSE "bcast", existing) >>]

\* main.py:203-257: the first frame is read and judged.  A refusal for the
\* token or the user is reported to the admission control; on success the
\* address's failures are cleared, auth_success is sent and connect is
\* entered.  An exception of that send is caught at line 250 like one of
\* the verification.
RecvAuth(c) ==
    /\ Turn(c) /\ pc[c] = "recv_auth" /\ SendEnds(c)
    /\ \/ /\ pc' = [pc EXCEPT ![c] = "finally"]  \* receive_text raises WebSocketDisconnect
          /\ dead' = [dead EXCEPT ![c] = TRUE]
          /\ event' = NoEvent
          /\ UNCHANGED <<regVars, invoked, stack, client_id, closeReq, cred, rejects,
                         failed_auth, recorded>>
       \/ \E a \in AuthFrames :
             /\ AuthVerdict(a) # "ok" => rejects < MaxRejects
             /\ rejects' = IF AuthVerdict(a) # "ok" THEN rejects + 1 ELSE rejects
             /\ cred' = [cred EXCEPT ![c] = a]
             /\ LET v   == AuthVerdict(a)
                    ip  == client_ip(c)
                    cid == IF a.clientId = None THEN GenIds[c] ELSE a.clientId IN
                IF v = "raise"
                THEN /\ pc' = [pc EXCEPT ![c] = "finally"]
                     /\ event' = NoEvent
                     /\ UNCHANGED <<regVars, invoked, stack, client_id, closeReq, dead,
                                    failed_auth, recorded>>
                ELSE IF v # "ok"
                THEN /\ pc' = [pc EXCEPT ![c] = "close"]
                     /\ client_id' = [client_id EXCEPT ![c] = a.clientId]
                     /\ closeReq' = [closeReq EXCEPT ![c] = v]
                     /\ failed_auth' = IF v \in RecordedVerdicts
                                       THEN RecordAuthFailure(failed_auth, ip)
                                       ELSE failed_auth
                     /\ recorded' = IF v \in RecordedVerdicts
                                    THEN [recorded EXCEPT ![ip] = @ + 1] ELSE recorded
                     /\ event' = NoEvent
                     /\ UNCHANGED <<regVars, invoked, stack, dead>>
                ELSE /\ client_id' = [client_id EXCEPT ![c] = cid]
                     /\ \/ /\ event' = SendEvent(c, c, AuthSuccessMsg(TokenSub[c], cid), FALSE)
                           /\ failed_auth' = ClearAuthFailures(failed_auth, ip)
                           /\ recorded' = [recorded EXCEPT ![ip] = 0]
                           /\ DoConnect(c, pathRoom[c], TokenSub[c], cid)
                           /\ pc' = [pc EXCEPT ![c] = "connect"]
                           /\ UNCHANGED <<closeReq, dead>>
                        \/ /\ event' = SendFailedEvent(c, c, AuthSuccessMsg(TokenSub[c], cid))
                           /\ failed_auth' = RecordAuthFailure(
                                                 ClearAuthFailures(failed_auth, ip), ip)
                           /\ recorded' = [recorded EXCEPT ![ip] = 1]
                           /\ dead' = [dead EXCEPT ![c] = TRUE]
                           /\ pc' = [pc EXCEPT ![c] = "close"]
                           /\ closeReq' = [closeReq EXCEPT ![c] = "Authentication failed"]
                           /\ UNCHANGED <<regVars, invoked, stack>>
    /\ Yield(c)
    /\ UNCHANGED <<clockVars, stalled, speakers, reported, connections_per_ip>>
    /\ UNCHANGED <<connected, pathRoom, budget, drops, notified>>

\* main.py:207,215,224,232,253,264: websocket.close(code=1008, ...), after
\* which the endpoint returns or breaks, in both cases into its finally block
Close(c) ==
    /\ Turn(c) /\ pc[c] = "close"
    /\ dead' = [dead EXCEPT ![c] = TRUE]
    /\ pc' = [pc EXCEPT ![c] = "finally"]
    /\ stack' = stack
    /\ event' = CloseEvent(c, CloseCode(closeReq[c]), closeReq[c])
    /\ Yield(c)
    /\ UNCHANGED <<clockVars, stalled, speakers, reported, connections_per_ip>>
    /\ UNCHANGED <<recorded, regVars, localVars, envVars, failed_auth, cred, invoked, notified>>

\* main.py:290-305: the finally block; disconnect only if `connected`
Finally(c) ==
    /\ Turn(c) /\ pc[c] = "finally" /\ stack[c] = << >>
    /\ IF connected[c]
       THEN /\ DoDisconnect(c, pathRoom[c])
            /\ stack' = [stack EXCEPT ![c] = LeftFrames(c, pathRoom[c])]
       ELSE UNCHANGED <<regVars, stack>>
    /\ pc' = [pc EXCEPT ![c] = IF stack'[c] = << >> THEN "done" ELSE "cleanup"]
    /\ dead' = [dead EXCEPT ![c] = (stack'[c] = << >>) \/ @]
    /\ connections_per_ip' =
           IF stack'[c] = << >>
           THEN RemoveConnection(connections_per_ip, client_ip(c), connection_id(c))
           ELSE connections_per_ip
    /\ event' = NoEvent
    /\ IF invoked[c]
       THEN UNCHANGED <<client_id, closeReq, cred>>
       ELSE \* the endpoint's locals end with it
            /\ client_id' = [client_id EXCEPT ![c] = None]
            /\ closeReq' = [closeReq EXCEPT ![c] = None]
            /\ cred' = [cred EXCEPT ![c] = NoAuthFrame]
    /\ Yield(c)
    /\ UNCHANGED <<clockVars, stalled, speakers, reported>>
    /\ UNCHANGED <<recorded, connected, pathRoom, envVars, failed_auth, invoked, notified>>

\* ----------------------------------------------------- connect, the tail
\* websocket_handler.py:62-67: users_in_room goes to the joiner
ConnectSendUsers(c) ==
    /\ Turn(c) /\ stack[c] # << >>
    /\ LET f == Top(stack[c]) IN
       /\ f.k = "connect" /\ f.pos = "users" /\ SendEnds(c)
       /\ IF dead[c]
          THEN /\ Raise(c)
               /\ event' = SendFailedEvent(c, c, UsersInRoomMsg(f.existing, c))
          ELSE /\ event' = SendEvent(c, c, UsersInRoomMsg(f.existing, c), FALSE)
               /\ stack' = [stack EXCEPT ![c] = SetTop(@, [f EXCEPT !.pos = "bcast"])]
               /\ UNCHANGED <<pc, dead, connections_per_ip>>
    /\ Yield(c)
    /\ UNCHANGED <<clockVars, stalled, speakers, reported>>
    /\ UNCHANGED <<recorded, regVars, localVars, envVars, failed_auth, cred, invoked, notified>>

\* websocket_handler.py:69-76 and 246-252: user_joined is built
\* (len(self.rooms[room_id]) raises KeyError once the room is gone) and the
\* broadcast starts iterating
ConnectBroadcast(c) ==
    /\ Turn(c) /\ stack[c] # << >>
    /\ LET f == Top(stack[c])
           room == pathRoom[c] IN
       /\ f.k = "connect" /\ f.pos = "bcast"
       /\ IF room \notin DOMAIN rooms
          THEN Raise(c)
          ELSE /\ stack' = [stack EXCEPT ![c] =
                      << [f EXCEPT !.pos = "wait"],
                         BcastFrame(room,
                                    MembershipMsg("user_joined", room, TokenSub[c],
                                                  client_id[c],
                                                  Cardinality(rooms[room]), c),
                                    c, roomGen[room], rooms[room]) >>]
               /\ UNCHANGED <<pc, dead, connections_per_ip>>
    /\ event' = NoEvent
    /\ Yield(c)
    /\ UNCHANGED <<clockVars, stalled, speakers, reported>>
    /\ UNCHANGED <<recorded, regVars, localVars, envVars, failed_auth, cred, invoked, notified>>


\* ------------------------------------------------------ broadcast_to_room
\* websocket_handler.py:252-253: the set iterator's next().  It raises
\* RuntimeError when the set's size differs from the size at its creation;
\* otherwise it yields an element not yet yielded, in the table's order, or
\* ends.  Elements added since are yielded or not; the excluded connection
\* is yielded and skipped without an await.
BcastNext(c) ==
    /\ Turn(c) /\ stack[c] # << >>
    /\ LET f    == Top(stack[c])
           live == IterSet(f)
           must == ((f.orig \cap live) \ f.visited) \ {f.excl}
           may  == ((live \ f.orig) \ f.visited) \ {f.excl} IN
       /\ f.k = "bcast" /\ f.pos = "next"
       /\ IF Cardinality(live) # Cardinality(f.orig)
          THEN /\ Raise(c)
               /\ event' = BcastEvent(c, f, TRUE)
          ELSE /\ \/ \E w \in must \cup may :
                        stack' = [stack EXCEPT ![c] =
                            SetTop(@, [f EXCEPT !.pos = "send", !.cur = w,
                                                !.visited = @ \cup {w}])]
                  \/ /\ must = {}
                     /\ stack' = [stack EXCEPT ![c] = SetTop(@, [f EXCEPT !.pos = "cleanup"])]
               /\ event' = NoEvent
               /\ UNCHANGED <<pc, dead, connections_per_ip>>
    /\ Yield(c)
    /\ UNCHANGED <<clockVars, stalled, speakers, reported>>
    /\ UNCHANGED <<recorded, regVars, localVars, envVars, failed_auth, cred, invoked, notified>>

\* websocket_handler.py:254-258: the send to one recipient returns or raises
BcastSend(c) ==
    /\ Turn(c) /\ stack[c] # << >>
    /\ LET f == Top(stack[c]) IN
       /\ f.k = "bcast" /\ f.pos = "send" /\ SendEnds(f.cur)
       /\ IF dead[f.cur]
          THEN /\ stack' = [stack EXCEPT ![c] =
                      SetTop(@, [f EXCEPT !.pos = "next", !.cur = NoConn,
                                          !.disc = @ \cup {f.cur},
                                          !.failed = @ \cup {f.cur}])]
               /\ event' = SendFailedEvent(c, f.cur, f.msg)
               /\ notified' = notified
          ELSE /\ stack' = [stack EXCEPT ![c] =
                      SetTop(@, [f EXCEPT !.pos = "next", !.cur = NoConn,
                                          !.sent = @ \cup {f.cur}])]
               /\ event' = SendEvent(c, f.cur, f.msg,
                                     f.msg.type = "user_left"
                                        /\ f.cur \in notified[f.msg.about])
               /\ notified' = IF f.msg.type = "user_left"
                              THEN [notified EXCEPT ![f.msg.about] = @ \cup {f.cur}]
                              ELSE notified
    /\ Yield(c)
    /\ UNCHANGED <<clockVars, stalled, speakers, reported, connections_per_ip>>
    /\ UNCHANGED <<recorded, regVars, localVars, pc, dead, envVars, failed_auth, cred, invoked>>

\* websocket_handler.py:260-262: disconnect is called for each recipient
\* whose send raised; when none is left the broadcast returns
BcastCleanup(c) ==
    /\ Turn(c) /\ stack[c] # << >>
    /\ LET f == Top(stack[c]) IN
       /\ f.k = "bcast" /\ f.pos = "cleanup"
       /\ IF f.disc = {}
          THEN /\ Return(c, Pop(stack[c]))
               /\ event' = BcastEvent(c, f, FALSE)
               /\ UNCHANGED regVars
          ELSE /\ \E d \in f.disc :
                     /\ DoDisconnect(d, f.room)
                     /\ stack' = [stack EXCEPT ![c] =
                            SetTop(@, [f EXCEPT !.disc = @ \ {d}]) \o LeftFrames(d, f.room)]
               /\ event' = NoEvent
               /\ UNCHANGED <<pc, dead, connected, connections_per_ip>>
    /\ Yield(c)
    /\ UNCHANGED <<clockVars, stalled, speakers, reported>>
    /\ UNCHANGED <<recorded, client_id, pathRoom, closeReq, envVars, failed_auth, cred, invoked,
                   notified>>

\* --------------------------------------------------------- handle_message
\* the payload a relayed message carries (offer / answer / candidate field)
RelayOf(fr, c, mid) ==
    [RelayMsg(fr.type, "p",
              MetaGet(connection_metadata, c, "client_id"),
              MetaGet(connection_metadata, c, "username"), c, mid)
        EXCEPT !.arg = fr.to]

\* handle_message was entered by task c with frame fr: reg tells whether c
\* was registered then, target is what the lookup of the frame's `to`
\* returned (found: it was not None), window what the admission check saw
DispatchEvent(c, fr, w, n) ==
    [kind |-> "dispatch", by |-> c, fr |-> fr, found |-> w # NoConn, target |-> w,
     window |-> n, reg |-> c \in DOMAIN connection_metadata]

\* a server that answers a ping to the whole room
HandlePingToRoom(c, fr, mid, reg) ==
    IF pathRoom[c] \in DOMAIN rooms
    THEN << HandleFrame("wait", NoConn, PongMsg(c, mid), fr, reg),
            BcastFrame(pathRoom[c], PongMsg(c, mid), NoConn,
                       roomGen[pathRoom[c]], rooms[pathRoom[c]]) >>
    ELSE << >>

\* handle_ping, websocket_handler.py:226-230, up to its await
HandlePing(c, fr, mid, reg) ==
    << HandleFrame("send", c, PongMsg(c, mid), fr, reg) >>

\* a server that ignores a frame of a type it does not know
HandleUnknownSilently(c, fr, mid, reg) == << >>

\* handle_message's else branch, websocket_handler.py:127-132, up to its await
HandleUnknown(c, fr, mid, reg) ==
    << HandleFrame("send", c, ErrorMsg(UnknownType, fr.type, c, mid), fr, reg) >>

\* websocket_handler.py:114-132 with handle_offer / handle_answer /
\* handle_ice_candidate / handle_ping up to their first await: the frames
\* task c is left with for inbound frame fr; w is what
\* find_websocket_by_client_id returned (NoConn for None)
Dispatch(c, fr, mid, w) ==
    LET room == pathRoom[c]
        reg  == c \in DOMAIN connection_metadata IN
    IF fr.type \in RelayTypes
    THEN IF fr.to # None
         THEN IF w # NoConn
              THEN << HandleFrame("send", w, RelayOf(fr, c, mid), fr, reg) >>
              ELSE IF fr.type \in {"offer", "answer"}
                   THEN << HandleFrame("send", c,
                               ErrorMsg("Target client not found", fr.to, c, mid), fr, reg) >>
                   ELSE << >>
         ELSE IF room \in DOMAIN rooms
              THEN << HandleFrame("wait", NoConn, RelayOf(fr, c, mid), fr, reg),
                      BcastFrame(room, RelayOf(fr, c, mid), c, roomGen[room], rooms[room]) >>
              ELSE << >>
    ELSE IF fr.type = "ping"
    THEN HandlePing(c, fr, mid, reg)
    ELSE HandleUnknown(c, fr, mid, reg)

\* main.py:261-272: the admission check is asked first; on a refusal the
\* transport is closed and the loop left.  Otherwise receive_text returns a
\* frame or raises WebSocketDisconnect; json.loads raises on a malformed
\* frame.
RecvMsg(c) ==
    /\ Turn(c) /\ pc[c] = "recv"
    /\ \/ /\ dead[c]
          /\ pc' = [pc EXCEPT ![c] = "finally"]
          /\ event' = NoEvent
          /\ UNCHANGED <<stack, budget, closeReq>>
       \/ /\ budget > 0 /\ c \in speakers
          /\ budget' = budget - 1
          /\ \E n \in WindowCounts :
                IF ~CheckMessageRate(n)
                THEN /\ pc' = [pc EXCEPT ![c] = "close"]
                     /\ closeReq' = [closeReq EXCEPT ![c] = "Rate limit exceeded"]
                     /\ event' = NoEvent
                     /\ stack' = stack
                ELSE /\ closeReq' = closeReq
                     /\ \E fr \in InFrames :
                           IF fr.type = "malformed"
                           THEN /\ pc' = [pc EXCEPT ![c] = "finally"]
                                /\ event' = MalformedEvent(c)
                                /\ stack' = stack
                           ELSE LET cands == IF fr.type \in RelayTypes /\ fr.to # None
                                             THEN FindByClientId(rooms, connection_metadata,
                                                                 pathRoom[c], fr.to)
                                             ELSE {} IN
                                \E w \in (IF cands = {} THEN {NoConn} ELSE cands) :
                                   /\ stack' = [stack EXCEPT ![c] =
                                          Dispatch(c, fr, budget, w)]
                                   /\ pc' = [pc EXCEPT ![c] =
                                          IF stack'[c] = << >> THEN "recv" ELSE "handle"]
                                   /\ event' = DispatchEvent(c, fr, w, n)
    /\ Yield(c)
    /\ UNCHANGED <<clockVars, stalled, speakers, reported, connections_per_ip>>
    /\ UNCHANGED <<recorded, regVars, connected, client_id, pathRoom, dead, drops, rejects,
                   failed_auth, cred, invoked, notified>>

\* websocket_handler.py:157,162,187,192,217,228,129: the one send of a
\* handler returns, or raises into handle_message's except clause
HandleSend(c) ==
    /\ Turn(c) /\ stack[c] # << >>
    /\ LET f == Top(stack[c]) IN
       /\ f.k = "handle" /\ f.pos = "send" /\ SendEnds(f.target)
       /\ IF dead[f.target]
          THEN /\ Raise(c)
               /\ event' = SendFailedEvent(c, f.target, f.msg)
          ELSE /\ stack' = [stack EXCEPT ![c] = << >>]
               /\ pc' = [pc EXCEPT ![c] = "recv"]
               /\ event' = SendEvent(c, f.target, f.msg, FALSE)
               /\ UNCHANGED <<dead, connections_per_ip>>
       /\ reported' = IF ~dead[f.target] /\ f.msg.type = "error" /\ budget > 0
                      THEN [reported EXCEPT ![c] = @ \cup {f.msg.message}]
                      ELSE reported
    /\ Yield(c)
    /\ UNCHANGED <<clockVars, stalled, speakers>>
    /\ UNCHANGED <<recorded, regVars, localVars, envVars, failed_auth, cred, invoked, notified>>

\* websocket_handler.py:134-139: the except clause reports to the sender;
\* an exception of that send leaves handle_message
HandleErr(c) ==
    /\ Turn(c) /\ stack[c] # << >>
    /\ LET f == Top(stack[c])
           m == ErrorMsg(InternalError, None, c, f.msg.mid) IN
       /\ f.k = "handle" /\ f.pos = "err" /\ SendEnds(c)
       /\ IF dead[c]
          THEN /\ Raise(c)
               /\ event' = SendFailedEvent(c, c, m)
          ELSE /\ stack' = [stack EXCEPT ![c] = << >>]
               /\ pc' = [pc EXCEPT ![c] = "recv"]
               /\ event' = SendEvent(c, c, m, FALSE)
               /\ UNCHANGED <<dead, connections_per_ip>>
       /\ reported' = IF ~dead[c] /\ budget > 0
                      THEN [reported EXCEPT ![c] = @ \cup {m.message}]
                      ELSE reported
    /\ Yield(c)
    /\ UNCHANGED <<clockVars, stalled, speakers>>
    /\ UNCHANGED <<recorded, regVars, localVars, envVars, failed_auth, cred, invoked, notified>>

\* ------------------------------------------------------- the environment
\* The peer of a joined connection goes away while the event loop is free:
\* from now on send_text on it raises and receive_text raises
\* WebSocketDisconnect once the frames already queued are read.
ClientDrop(c) ==
    /\ running = NoConn
    /\ ~dead[c] /\ c \notin stalled
    /\ pc[c] \in {"connect", "recv", "handle", "cleanup"}
    /\ drops < MaxDrops
    /\ drops' = drops + 1
    /\ dead' = [dead EXCEPT ![c] = TRUE]
    /\ event' = NoEvent
    /\ UNCHANGED <<recorded, regVars, localVars, pc, stack, running, clockVars, stalled, speakers, budget,
                   rejects, failed_auth, cred, invoked, notified, reported,
                   connections_per_ip>>

\* ------------------------------------------------------ the status queries
\* main.py:315-318: GET /api/rooms, handled between two steps of the
\* connections' tasks; the handler has no await
ListRoomsCall ==
    /\ running = NoConn
    /\ event' = RoomsListEvent(ListRooms(rooms))
    /\ UNCHANGED <<recorded, regVars, localVars, envVars, pc, stack, running, dead, clockVars, stalled,
                   speakers, failed_auth, cred, invoked, notified, reported,
                   connections_per_ip>>

\* main.py:307-313: POST /api/rooms/{room_id}/info
GetRoomInfoCall(room) ==
    /\ running = NoConn
    /\ event' = RoomInfoEvent(room, GetRoomInfo(rooms, room))
    /\ UNCHANGED <<recorded, regVars, localVars, envVars, pc, stack, running, dead, clockVars, stalled,
                   speakers, failed_auth, cred, invoked, notified, reported,
                   connections_per_ip>>

Next ==
    \E c \in Conns :
        \/ Accept(c)
        \/ RecvAuth(c)
        \/ Close(c)
        \/ ConnectSendUsers(c)
        \/ ConnectBroadcast(c)
        \/ BcastNext(c)
        \/ BcastSend(c)
        \/ BcastCleanup(c)
        \/ RecvMsg(c)
        \/ HandleSend(c)
        \/ HandleErr(c)
        \/ Finally(c)
        \/ ClientDrop(c)

Spec == Init /\ [][Next]_vars

\* The steps of task c that need nothing from its peer: every step but the
\* reading of a frame the peer has yet to send.  receive_text on a transport
\* that is gone raises at once.
ServerStep(c) ==
    \/ Accept(c)
    \/ Close(c)
    \/ ConnectSendUsers(c)
    \/ ConnectBroadcast(c)
    \/ BcastNext(c)
    \/ BcastSend(c)
    \/ BcastCleanup(c)
    \/ HandleSend(c)
    \/ HandleErr(c)
    \/ Finally(c)
    \/ (dead[c] /\ RecvAuth(c))
    \/ (dead[c] /\ RecvMsg(c))

\* The event loop runs every task that is ready (asyncio's ready queue is
\* first in, first out), and a send_text to a peer that reads, or to a
\* transport that is gone, comes back.
Fairness == \A c \in Conns : WF_vars(ServerStep(c))

SessionSpec == InitSession /\ [][Next]_vars /\ Fairness

\* The server with its status endpoints in use: the connections arrive or
\* have joined, and the two queries are made at any time.
InitStatus ==
    \/ InitServer(1 .. (NumConns - 1), MaxMsgs)
    \/ InitJoined

StatusNext ==
    \/ Next
    \/ ListRoomsCall
    \/ \E room \in Rooms : GetRoomInfoCall(room)

StatusSpec == InitStatus /\ [][StatusNext]_vars


\* ------------------------------------------------------------ the lockout
\* k failures recorded at time t
Failures(k, t) == [i \in 1 .. k |-> t]

\* what earlier endpoints of an address, all ended, have left in its deque:
\* failures recorded at time 0 and at time 1, none cleared
FailureHistories ==
    {Failures(k, 0) \o Failures(j, 1) :
        k \in {0, max_auth_failures - 1, max_auth_failures}, j \in {0, 1}}

\* The server at time 1 with a record of failures for the address the
\* connections of `arriving` come from.
InitLockout ==
    /\ InitEndpoints({c \in Conns : client_ip(c) = "ip2"}, MaxMsgs)
    /\ \E h \in FailureHistories :
          /\ failed_auth = [ip \in Ips |-> IF ip = "ip2" THEN h ELSE << >>]
          /\ recorded = [ip \in Ips |-> IF ip = "ip2" THEN Len(h) ELSE 0]
    /\ message_counts = [ip \in Ips |-> << >>]
    /\ admitted = [ip \in Ips |-> << >>]
    /\ now = 1

\* the amounts of time that pass between two steps of the server
ClockSteps == {auth_lockout_duration - 1, auth_lockout_duration}

\* d seconds pass while the event loop is idle, up to the time `until`
Tick(d, until) ==
    /\ running = NoConn
    /\ now + d <= until
    /\ now' = now + d
    /\ event' = NoEvent
    /\ UNCHANGED <<regVars, localVars, envVars, pc, stack, running, dead, stalled, speakers,
                   failed_auth, connections_per_ip, cred, invoked, notified,
                   reported, message_counts, recorded, admitted>>

LockoutNext ==
    \/ Next
    \/ \E d \in ClockSteps : Tick(d, MaxClock)

LockoutSpec == InitLockout /\ [][LockoutNext]_vars

\* --------------------------------------------------------- the rate check
\* check_message_rate(ip) returned result
RateEvent(ip, result) == [kind |-> "rate", ip |-> ip, result |-> result]

\* what the admitted frames of an address have left in its deque: frames
\* admitted at time 0 and at time 1, up to the limit
MessageHistories ==
    {Failures(k, 0) \o Failures(j, 1) :
        k \in {0, max_messages_per_minute - 2, max_messages_per_minute - 1}, j \in {0, 1}}

\* The limiter at time 1 with frames admitted before; MaxCalls further calls
\* of check_message_rate are made, by no endpoint in particular.
InitRate ==
    /\ InitEndpoints({}, MaxCalls)
    /\ failed_auth = [ip \in Ips |-> << >>]
    /\ recorded = [ip \in Ips |-> 0]
    /\ message_counts \in [Ips -> MessageHistories]
    /\ admitted = message_counts
    /\ now = 1

\* rate_limiter.py:76-92: check_message_rate(ip), synchronous
RateCall(ip) ==
    /\ running = NoConn /\ budget > 0
    /\ budget' = budget - 1
    /\ LET cleaned == CleanMessages(message_counts, ip)
           ok      == CheckMessageRate(Len(cleaned[ip])) IN
       /\ message_counts' = IF ok THEN [cleaned EXCEPT ![ip] = Append(@, now)] ELSE cleaned
       /\ admitted' = IF ok THEN [admitted EXCEPT ![ip] = Append(@, now)] ELSE admitted
       /\ event' = RateEvent(ip, ok)
    /\ UNCHANGED <<regVars, localVars, drops, rejects, pc, stack, running, dead, stalled,
                   speakers, failed_auth, connections_per_ip, cred, invoked, notified,
                   reported, now, recorded>>

\* the amounts of time that pass between two calls
RateSteps == {message_window - 1, message_window}

RateNext ==
    \/ \E ip \in Ips : RateCall(ip)
    \/ \E d \in RateSteps : Tick(d, MaxRateClock)

RateSpec == InitRate /\ [][RateNext]_vars

\* =============================================================== properties
Notifications == {"users_in_room", "user_joined", "user_left"}

\* the first frame of connection c carried a token the verifier accepted and
\* whose subject resolved to an active user
Verified(c) ==
    cred[c].type = "auth_token" /\ cred[c].token = "valid" /\ cred[c].lookup = "active"

\* C1: for every room id, the size of rooms[room_id] is the number of joins
\* into the room minus the number of completed leaves from it, and the room
\* id is a key of rooms exactly when that number is greater than 0.
C1_MemberCount ==
    \A r \in Rooms :
        /\ Cardinality(Members(rooms, r)) = joins[r] - leaves[r]
        /\ (r \in DOMAIN rooms) <=> (joins[r] - leaves[r] > 0)

\* a room that connections joined and one has left, and a room emptied again
C1_Witness ==
    /\ \E r \in Rooms : joins[r] >= 2 /\ leaves[r] >= 1 /\ r \in DOMAIN rooms
    /\ \E r \in Rooms : joins[r] >= 1 /\ leaves[r] = joins[r] /\ r \notin DOMAIN rooms

\* C2: at every suspension point a connection is a member of some room's set
\* exactly when it has an entry in connection_metadata, and that entry names
\* the room whose set holds it.
C2_MapsAgree ==
    running = NoConn =>
        /\ AllMembers(rooms) = DOMAIN connection_metadata
        /\ \A w \in DOMAIN connection_metadata :
              w \in Members(rooms, connection_metadata[w].room_id)

\* a member was removed after a broadcast's send to it failed, while its own
\* endpoint still waits in the message loop and other members remain
C2_Witness ==
    /\ running = NoConn
    /\ \E c \in Conns :
          /\ invoked[c] /\ pc[c] = "recv"
          /\ c \notin DOMAIN connection_metadata
    /\ AllMembers(rooms) # {}

\* C3: once the endpoint of a connection on which it invoked connect has
\* terminated, the connection is absent from every room's member set and from
\* connection_metadata.
C3_TerminatedIsUnregistered ==
    \A c \in Conns :
        (invoked[c] /\ pc[c] = "done") =>
            /\ c \notin AllMembers(rooms)
            /\ c \notin DOMAIN connection_metadata

\* C4: no remaining member is sent a second user_left for the same departure.
C4_OneUserLeftPerDeparture ==
    (event.kind = "send" /\ event.msg.type = "user_left") => ~event.again

\* C5: a broadcast that excludes the sender, a member, has attempted delivery
\* to exactly the other members when it ends, whether or not sends raised.
C5_AllOthersAttempted ==
    (event.kind = "bcast_end" /\ event.excl \in event.orig) =>
        /\ event.sent \cup event.failed = event.orig \ {event.excl}
        /\ event.excl \notin event.sent \cup event.failed

\* C6: a broadcast in which a send failed returns normally, and on return
\* every member whose send failed is gone from the room's member set and from
\* connection_metadata.
C6_FailedSendReturnsAndRemoves ==
    (event.kind = "bcast_end" /\ event.failed # {}) =>
        /\ ~event.raised
        /\ event.failed \cap Members(rooms, event.room) = {}
        /\ event.failed \cap DOMAIN connection_metadata = {}

\* C7: a broadcast during which connections joined or left the room ends
\* without an error, having sent to every non-excluded connection that was a
\* member from its start to its end.
C7_BroadcastSurvivesChange ==
    event.kind = "bcast_end" =>
        /\ ~event.raised
        /\ ((event.orig \cap Members(rooms, event.room)) \ {event.excl})
               \subseteq event.sent \cup event.failed

C9_MissingTargetError ==
    ( /\ event.kind = "dispatch"
      /\ event.fr.type \in RelayTypes /\ event.fr.to # None
      /\ ~event.found )
    => LET s == stack[event.by] IN
       /\ Len(s) = 1 /\ s[1].k = "handle" /\ s[1].pos = "send"
       /\ s[1].target = event.by
       /\ s[1].msg.type = "error" /\ s[1].msg.arg = event.fr.to

\* C10: every connection in a room's member set presented a token that was
\* verified and resolved to an active user, and users_in_room, user_joined,
\* user_left and relayed messages are sent to such connections only.
C10_OnlyAuthenticated ==
    /\ \A c \in AllMembers(rooms) \cup DOMAIN connection_metadata : Verified(c)
    /\ ( /\ event.kind \in {"send", "send_failed"}
         /\ event.msg.type \in Notifications \cup RelayTypes )
       => Verified(event.to)

\* a member is notified while another connection's first frame was refused
C10_Witness ==
    /\ event.kind = "send" /\ event.msg.type \in Notifications
    /\ Verified(event.to)
    /\ \E c \in Conns : pc[c] = "close" /\ closeReq[c] # None /\ ~Verified(c)

\* C11: a connection whose first frame has a type other than auth_token is
\* closed with the policy-violation code and reason "Authentication
\* required"; connect is never invoked for it, it is in no room and has no
\* metadata, and its endpoint goes from the close to its end without
\* reading or handling another frame.
C11_NonAuthFirstFrameRefused ==
    \A c \in Conns :
        cred[c].type \notin {None, "malformed", "auth_token"} =>
            /\ pc[c] \in {"close", "finally"}
            /\ closeReq[c] = "Authentication required"
            /\ CloseCode(closeReq[c]) = 1008
            /\ pc[c] = "finally" => dead[c]
            /\ ~invoked[c] /\ ~connected[c] /\ stack[c] = << >>
            /\ c \notin AllMembers(rooms) /\ c \notin DOMAIN connection_metadata

\* an offer carrying a valid token was the first frame of a connection; the
\* connection was closed while another connection is a member of a room
C11_Witness ==
    \E c \in Conns :
        /\ cred[c].type = "offer" /\ cred[c].token = "valid"
        /\ pc[c] = "finally" /\ dead[c]
        /\ AllMembers(rooms) # {}

\* the first frame of c is an auth_token frame that fails authentication
TokenOrUserFailure(a) ==
    /\ a.type = "auth_token"
    /\ a.token # "valid" \/ a.lookup # "active"

C13_DeniedIsClosedAndRemoved ==
    /\ event.kind = "dispatch" => event.window < max_messages_per_minute
    /\ \A c \in Conns :
          closeReq[c] = "Rate limit exceeded" =>
             /\ pc[c] \in {"close", "finally", "cleanup", "done"}
             /\ pc[c] # "close" => dead[c]
             /\ pc[c] \in {"cleanup", "done"} =>
                    c \notin AllMembers(rooms) /\ c \notin DOMAIN connection_metadata
             /\ \A i \in 1 .. Len(stack[c]) :
                    /\ stack[c][i].k \in {"disc", "bcast"}
                    /\ stack[c][i].k = "bcast" => stack[c][i].msg.type = "user_left"
    /\ ( /\ event.kind \in {"send", "send_failed"}
         /\ event.msg.type \in RelayTypes \cup {"error", "pong"} )
       => closeReq[event.msg.about] # "Rate limit exceeded"

\* a joined connection was refused by the admission check, its endpoint has
\* ended and a remaining member was sent its user_left
C13_Witness ==
    \E c \in Conns :
        /\ closeReq[c] = "Rate limit exceeded" /\ pc[c] = "done"
        /\ notified[c] # {}
        /\ c \notin AllMembers(rooms)

\* the handler calls in progress, of all tasks
Frames == UNION {{stack[c][i] : i \in 1 .. Len(stack[c])} : c \in Conns}

\* C14: every user_left being broadcast carries the room_id of the departed
\* connection, the client_id and username it was given at its join, and
\* connected_users equal to the number of members left after its removal;
\* it goes to the members left, of which there is at least one, and when
\* the broadcast ends a send was made to each of them that is still a member.
C14_UserLeftContent ==
    /\ \A f \in Frames :
          (f.k = "bcast" /\ f.msg.type = "user_left") =>
             /\ f.msg.room_id = pathRoom[f.msg.about]
             /\ f.msg.client_id = client_id[f.msg.about]
             /\ f.msg.username = TokenSub[f.msg.about]
             /\ f.msg.connected_users = Cardinality(f.orig)
             /\ f.orig # {} /\ f.msg.about \notin f.orig
    /\ (event.kind = "bcast_end" /\ event.type = "user_left") =>
          (event.orig \cap Members(rooms, event.room)) \subseteq event.sent \cup event.failed

\* C15: disconnect called for a connection that has no metadata starts no
\* user_left broadcast.
C15_UnregisteredDisconnectIsNoOp ==
    \A f \in Frames : f.k = "disc" => f.reg

\* C16: the user_joined broadcast of a join excludes the joiner, carries the
\* room_id, the joiner's username and client_id and connected_users equal to
\* the number of members with the joiner, and when it ends a send has been
\* made to every other member that is still in the room.
C16_UserJoinedToAllOthers ==
    /\ \A f \in Frames :
          (f.k = "bcast" /\ f.msg.type = "user_joined") =>
             /\ f.excl = f.msg.about
             /\ f.excl \notin f.sent \cup f.failed
             /\ f.msg.room_id = pathRoom[f.excl]
             /\ f.msg.client_id = client_id[f.excl]
             /\ f.msg.username = TokenSub[f.excl]
             /\ f.excl \in f.orig
             /\ f.msg.connected_users = Cardinality(f.orig)
    /\ (event.kind = "bcast_end" /\ event.type = "user_joined") =>
          ((event.orig \cap Members(rooms, event.room)) \ {event.excl})
              \subseteq event.sent \cup event.failed

\* C17: the step that joins a connection takes as its snapshot exactly the
\* entries (client_id, username) of the members the room had before the
\* join, the joiner not among them, and goes on to send users_in_room
\* exactly when that snapshot is not empty; users_in_room is sent to the
\* joiner only, with a non-empty list without an entry of the joiner, and
\* once the send was made connect does not come back to it.
C17_UsersInRoomSnapshot ==
    /\ [][ \A c \in Conns :
              (pc[c] = "recv_auth" /\ pc'[c] = "connect") =>
                 LET f == stack'[c][1]
                     before == Members(rooms, pathRoom[c]) IN
                 /\ f.k = "connect"
                 /\ c \notin before
                 /\ f.existing =
                        {[ws |-> w, client_id |-> connection_metadata[w].client_id,
                          username |-> connection_metadata[w].username] : w \in before}
                 /\ (f.pos = "users") <=> (before # {})
          ]_vars
    /\ []( /\ \A f \in Frames : (f.k = "connect" /\ f.pos = "users") => f.existing # {}
           /\ (event.kind \in {"send", "send_failed"} /\ event.msg.type = "users_in_room") =>
                 /\ event.to = event.msg.about /\ event.by = event.to
                 /\ event.msg.users # {}
                 /\ \A u \in event.msg.users : u.ws # event.to
                 /\ \A i \in 1 .. Len(stack[event.to]) :
                        ~(stack[event.to][i].k = "connect" /\ stack[event.to][i].pos = "users") )

\* a joiner was sent users_in_room listing the two members that were in its
\* room before it
C17_Witness ==
    /\ event.kind = "send" /\ event.msg.type = "users_in_room"
    /\ {u.ws : u \in event.msg.users} = Members(rooms, pathRoom[event.to]) \ {event.to}
    /\ Cardinality(event.msg.users) = 2

\* the connection that joined `room` last with client id cid (NoConn: none
\* did); a generated id is used by one connection only
LastJoined(room, cid) ==
    IF cid \in ClientIds THEN lastJoin[room][cid]
    ELSE LET own == {c \in Conns : invoked[c] /\ pathRoom[c] = room /\ client_id[c] = cid} IN
         IF own = {} THEN NoConn ELSE CHOOSE c \in own : TRUE

\* C18: the lookup made for a directed frame returns the connection that
\* joined the sender's room last with the client id the frame names, if it
\* is still a member of that room, and None otherwise.
C18_FindReturnsLastJoined ==
    (event.kind = "dispatch" /\ event.fr.type \in RelayTypes /\ event.fr.to # None) =>
        LET room == pathRoom[event.by]
            last == LastJoined(room, event.fr.to) IN
        event.target = IF last # NoConn /\ last \in Members(rooms, room)
                       THEN last ELSE NoConn

\* C19: no two distinct members of a room have the same client_id.
C19_UniqueClientIdInRoom ==
    \A r \in DOMAIN rooms :
        \A c, d \in rooms[r] \cap DOMAIN connection_metadata :
            c # d => connection_metadata[c].client_id # connection_metadata[d].client_id

\* C20: every offer, answer and ice_candidate delivered to a recipient
\* carries as `from` the client_id the sending connection was given at its
\* join and as `username` its username.
C20_RelayCarriesSender ==
    (event.kind = "send" /\ event.msg.type \in RelayTypes) =>
        /\ event.msg.from = client_id[event.msg.about]
        /\ event.msg.username = TokenSub[event.msg.about]

\* task c is inside handle_message for a frame of type t and stands at the
\* handler's one send
Handling(c, t) ==
    /\ pc[c] = "handle" /\ stack[c] # << >>
    /\ Top(stack[c]).k = "handle" /\ Top(stack[c]).pos = "send"
    /\ Top(stack[c]).fr.type = t

\* C21: a frame of a type the server does not know leaves its handler with
\* one send to make, an error naming the type to the sender; the handler's
\* step makes that send (it raises if the sender's transport is gone),
\* changes neither rooms nor connection_metadata and returns to the message
\* loop with the transport open; such an error goes to no connection but
\* the sender of the frame; and a frame the sender sends afterwards is
\* dispatched like any other.
C21_UnknownTypeError ==
    /\ [][ \A c \in Conns :
              (Handling(c, "bogus") /\ stack'[c] # stack[c]) =>
                 LET m == Top(stack[c]).msg IN
                 /\ rooms' = rooms /\ connection_metadata' = connection_metadata
                 /\ IF dead[c]
                    THEN event' = SendFailedEvent(c, c, m)
                    ELSE /\ event' = SendEvent(c, c, m, FALSE)
                         /\ pc'[c] = "recv" /\ stack'[c] = << >> /\ ~dead'[c]
          ]_vars
    /\ []( /\ (event.kind = "dispatch" /\ event.fr.type = "bogus") =>
                 /\ Len(stack[event.by]) = 1
                 /\ Handling(event.by, "bogus")
                 /\ Top(stack[event.by]).target = event.by
                 /\ Top(stack[event.by]).msg.type = "error"
                 /\ Top(stack[event.by]).msg.message = UnknownType
                 /\ Top(stack[event.by]).msg.arg = "bogus"
           /\ ( /\ event.kind \in {"send", "send_failed"}
                /\ event.msg.type = "error" /\ event.msg.message = UnknownType ) =>
                 /\ event.to = event.by /\ event.msg.about = event.by
           /\ (event.kind = "dispatch" /\ UnknownType \in reported[event.by]) =>
                 /\ stack[event.by] =
                        Dispatch(event.by, event.fr, budget + 1, event.target)
                 /\ pc[event.by] = IF stack[event.by] = << >> THEN "recv" ELSE "handle" )

\* a connection that was sent the error for a frame of unknown type has had
\* its next frame, an offer, relayed to the member it names
C21_Witness ==
    /\ event.kind = "send" /\ event.msg.type = "offer" /\ event.msg.arg # None
    /\ event.to # event.by
    /\ UnknownType \in reported[event.by]
    /\ event.by \in Members(rooms, pathRoom[event.by])

\* C22: a ping leaves its handler with one send to make, a pong to the
\* sender; the handler's step makes that send (it raises if the sender's
\* transport is gone), changes neither rooms nor connection_metadata and
\* returns to the message loop; and every pong that is sent goes to the
\* connection whose ping it answers, from that connection's own task.
C22_PingPongToSenderOnly ==
    /\ [][ \A c \in Conns :
              (Handling(c, "ping") /\ stack'[c] # stack[c]) =>
                 LET m == Top(stack[c]).msg IN
                 /\ rooms' = rooms /\ connection_metadata' = connection_metadata
                 /\ IF dead[c]
                    THEN event' = SendFailedEvent(c, c, m)
                    ELSE /\ event' = SendEvent(c, c, m, FALSE)
                         /\ pc'[c] = "recv" /\ stack'[c] = << >> /\ ~dead'[c]
          ]_vars
    /\ []( /\ (event.kind = "dispatch" /\ event.fr.type = "ping") =>
                 /\ Len(stack[event.by]) = 1
                 /\ Handling(event.by, "ping")
                 /\ Top(stack[event.by]).target = event.by
                 /\ Top(stack[event.by]).msg.type = "pong"
           /\ (event.kind \in {"send", "send_failed"} /\ event.msg.type = "pong") =>
                 /\ event.to = event.by /\ event.msg.about = event.by
           /\ \A f \in Frames : f.k = "bcast" => f.msg.type # "pong" )

\* the only member of a room was sent the pong for its ping, while another
\* room has two members
C22_Witness ==
    /\ event.kind = "send" /\ event.msg.type = "pong"
    /\ Members(rooms, pathRoom[event.to]) = {event.to}
    /\ \E r \in DOMAIN rooms : Cardinality(rooms[r]) = 2

\* task c is in handle_message's except clause, about to report the error
InExcept(c) ==
    /\ pc[c] = "handle" /\ stack[c] # << >>
    /\ Top(stack[c]).k = "handle" /\ Top(stack[c]).pos = "err"

\* C23: an exception raised while a frame is handled does not leave
\* handle_message, unless it is raised by the report of an earlier one to a
\* sender whose transport is gone; the except clause sends the generic
\* error to the sender and returns to the message loop with the transport
\* open and the sender still in its room and in connection_metadata, both
\* unchanged; and a frame the sender sends afterwards is dispatched like any
\* other.
C23_HandlerErrorCaught ==
    /\ [][ \A c \in Conns :
              /\ (pc[c] = "handle" /\ pc'[c] # "handle") =>
                    \/ pc'[c] = "recv"
                    \/ InExcept(c) /\ dead[c] /\ pc'[c] = "finally"
              /\ (InExcept(c) /\ ~dead[c] /\ stack'[c] # stack[c]) =>
                    /\ event' = SendEvent(c, c, ErrorMsg(InternalError, None, c,
                                                         Top(stack[c]).msg.mid), FALSE)
                    /\ pc'[c] = "recv" /\ stack'[c] = << >> /\ ~dead'[c]
                    /\ rooms' = rooms /\ connection_metadata' = connection_metadata
                    /\ c \in Members(rooms, pathRoom[c])
                    /\ c \in DOMAIN connection_metadata
          ]_vars
    /\ []( /\ ( /\ event.kind \in {"send", "send_failed"}
                /\ event.msg.type = "error" /\ event.msg.message = InternalError ) =>
                 /\ event.to = event.by /\ event.msg.about = event.by
           /\ (event.kind = "dispatch" /\ InternalError \in reported[event.by]) =>
                 /\ stack[event.by] =
                        Dispatch(event.by, event.fr, budget + 1, event.target)
                 /\ pc[event.by] = IF stack[event.by] = << >> THEN "recv" ELSE "handle" )

\* a sender that had been sent the generic error was sent the pong for its
\* next frame, in a room nobody has joined or left since the session began
\* and one of whose members is gone: the send that raised was a directed one
C23_Witness ==
    /\ event.kind = "send" /\ event.msg.type = "pong"
    /\ InternalError \in reported[event.to]
    /\ joins["r1"] = NumConns - 1 /\ leaves["r1"] = 0
    /\ event.to \in Members(rooms, "r1")
    /\ \E w \in Members(rooms, "r1") : dead[w]

\* the send of a directed offer, answer or ice_candidate to its resolved
\* target w has just raised
DirectedSendFailed(w) ==
    /\ event.kind = "send_failed" /\ event.to = w
    /\ event.msg.type \in RelayTypes /\ event.msg.arg # None

\* C24: whenever the send of a directed offer, answer or ice_candidate to
\* its target raises, the target is later in no room's member set and not
\* in connection_metadata.
C24_FailedDirectedTargetRemoved ==
    \A w \in Conns :
        DirectedSendFailed(w) ~>
            (w \notin AllMembers(rooms) /\ w \notin DOMAIN connection_metadata)

\* the broadcast task c is making is suspended in its send to a peer that
\* has stopped reading
StalledSend(c) ==
    /\ stack[c] # << >>
    /\ Top(stack[c]).k = "bcast" /\ Top(stack[c]).pos = "send"
    /\ Top(stack[c]).cur \in stalled /\ ~dead[Top(stack[c]).cur]

\* the members the broadcast task c is making still owes its message: those
\* in the room since its start, not excluded, reading, and not yet tried
Owed(c) ==
    IF stack[c] # << >> /\ Top(stack[c]).k = "bcast"
    THEN LET f == Top(stack[c]) IN
         ((f.orig \cap IterSet(f)) \ ({f.excl} \cup stalled)) \ (f.sent \cup f.failed)
    ELSE {}

\* C25: when a broadcast is suspended in the send to a peer that has
\* stopped reading, the other members are nevertheless sent its message:
\* later no member is owed it.
C25_StalledDoesNotStallBroadcast ==
    \A c \in Conns : StalledSend(c) ~> (Owed(c) = {})

\* the metadata stored for connection w, None when there is none
MetaOf(md, w) == IF w \in DOMAIN md THEN md[w] ELSE None

\* the step is one of task c
Acting(c) == pc'[c] # pc[c] \/ stack'[c] # stack[c]

\* task c is inside connect, disconnect, broadcast_to_room or
\* handle_message, or in the endpoint's code around them
Busy(c) == pc[c] \in {"start", "close", "connect", "handle", "cleanup", "finally"}

\* C26: a step of a task serving room A changes neither the member set of
\* another room B nor whether and what connection_metadata holds for B's
\* members; and whenever the event loop is free, a task that is inside an
\* operation has a step to take unless a peer of its own room has stopped
\* reading: what is pending in another room does not hold it up.
C26_RoomsIndependent ==
    /\ [][ \A c \in Conns :
              Acting(c) =>
                 \A r \in Rooms \ {pathRoom[c]} :
                    /\ Members(rooms', r) = Members(rooms, r)
                    /\ \A w \in Members(rooms, r) :
                          MetaOf(connection_metadata', w) = MetaOf(connection_metadata, w)
          ]_vars
    /\ []( \A c \in Conns :
              ( /\ running = NoConn /\ Busy(c)
                /\ \A w \in stalled : pathRoom[w] # pathRoom[c] ) =>
                 ENABLED ServerStep(c) )

\* connection 3 has joined r2 and its user_joined broadcast has returned
\* while a broadcast in r1 is suspended in its send to a peer that has
\* stopped reading
C26_Witness ==
    /\ event.kind = "bcast_end" /\ event.by = NumConns /\ event.room = "r2"
    /\ event.type = "user_joined" /\ ~event.raised
    /\ Members(rooms, "r2") = {NumConns}
    /\ NumConns \in DOMAIN connection_metadata
    /\ \E c \in Members(rooms, "r1") : StalledSend(c)

\* C27: a connection closed for exceeding the message rate is closed with a
\* code that none of the closes of the authentication phase uses.
C27_RateLimitCloseCode ==
    (event.kind = "close" /\ event.reason = "Rate limit exceeded") =>
        event.code \notin {CloseCode(v) : v \in AuthCloseReasons}

\* C28: once a frame that is not valid JSON was read from a connection, as
\* its first frame or in the message loop, the endpoint has a close of that
\* connection with the policy-violation code to make or made; nothing is
\* routed for the frame; a joined connection is still headed for its
\* clean-up.
C28_MalformedFrameClosed ==
    \A c \in Conns :
        (cred[c].type = "malformed" \/ (event.kind = "malformed" /\ event.by = c)) =>
            /\ closeReq[c] # None /\ CloseCode(closeReq[c]) = PolicyViolation
            /\ stack[c] = << >>
            /\ connected[c] => pc[c] \in {"close", "finally"}

\* the client id the first frame of connection c asks for, or the one
\* generated for it (main.py:211,238-240)
AssignedId(c) == IF cred[c].clientId = None THEN GenIds[c] ELSE cred[c].clientId

\* C29: the client_id a connection is sent in auth_success is the value its
\* first frame supplied, or else a generated one; connection_metadata holds
\* that value for it; user_joined about it, its entry in users_in_room and
\* `from` of the messages relayed for it carry that value.
C29_OneClientIdEverywhere ==
    /\ (event.kind \in {"send", "send_failed"} /\ event.msg.type = "auth_success") =>
           event.msg.client_id = AssignedId(event.to)
    /\ \A w \in DOMAIN connection_metadata :
           connection_metadata[w].client_id = AssignedId(w)
    /\ (event.kind = "send" /\ event.msg.type = "user_joined") =>
           event.msg.client_id = AssignedId(event.msg.about)
    /\ (event.kind = "send" /\ event.msg.type = "users_in_room") =>
           \A u \in event.msg.users : u.client_id = AssignedId(u.ws)
    /\ (event.kind = "send" /\ event.msg.type \in RelayTypes) =>
           event.msg.from = AssignedId(event.msg.about)

\* the rooms that have at least one member
Occupied == {r \in Rooms : Members(rooms, r) # {}}

\* C30: list_rooms returns one entry for each room that has a member and no
\* other entry, each with the room's member count; get_room_info returns
\* that entry for a room that has a member and None for one that has none;
\* neither call changes rooms or connection_metadata.
C30_Introspection ==
    /\ [][ event'.kind \in {"rooms_list", "room_info"} =>
              (rooms' = rooms /\ connection_metadata' = connection_metadata) ]_vars
    /\ []( /\ event.kind = "rooms_list" =>
                 /\ Len(event.result) = Cardinality(Occupied)
                 /\ \A r \in Occupied :
                       \E i \in 1 .. Len(event.result) :
                          /\ event.result[i].room_id = r
                          /\ event.result[i].connected_users = Cardinality(rooms[r])
           /\ event.kind = "room_info" =>
                 event.result =
                    IF event.room \in Occupied
                    THEN [room_id |-> event.room,
                          connected_users |-> Cardinality(rooms[event.room]),
                          is_active |-> TRUE]
                    ELSE None )

\* two rooms were listed, one with two members and one with one
C30_Witness ==
    /\ event.kind = "rooms_list" /\ Len(event.result) = 2
    /\ \E i, j \in 1 .. 2 : /\ event.result[i].connected_users = 2
                             /\ event.result[j].connected_users = 1

\* the rooms whose member set holds connection w
RoomsOf(w) == {r \in DOMAIN rooms : w \in rooms[r]}

\* C31: a connection is in the member set of at most one room; if
\* connection_metadata has an entry for it, the entry's room_id is a room
\* whose member set holds it; and a member that has an entry is in the room
\* the entry names.
C31_OneRoomPerConnection ==
    \A w \in Conns :
        /\ Cardinality(RoomsOf(w)) <= 1
        /\ w \in DOMAIN connection_metadata =>
               RoomsOf(w) = {connection_metadata[w].room_id}

\* r1 has two members and r2 one, each registered under its own room, and
\* the join broadcast of the lone member has just returned
C31_Witness ==
    /\ Cardinality(Members(rooms, "r1")) = 2 /\ Cardinality(Members(rooms, "r2")) = 1
    /\ AllMembers(rooms) \subseteq DOMAIN connection_metadata
    /\ \E r \in Rooms : joins[r] = 1 /\ event.kind = "bcast_end" /\ event.room = r

\* what connect stores for connection w (main.py:257)
JoinEntry(w) == [room_id |-> pathRoom[w], username |-> TokenSub[w], client_id |-> AssignedId(w)]

\* C32: the entry connection_metadata holds for a connection is the one
\* written at its join for as long as it has one, and the connection stays
\* in the room it joined; a step that reads or handles an inbound frame
\* changes no entry and moves no member; a second auth_token is handed to
\* the branch for unknown types.
C32_JoinRecordFixed ==
    /\ [][ /\ \A w \in DOMAIN connection_metadata \cap DOMAIN connection_metadata' :
                 /\ connection_metadata'[w] = connection_metadata[w]
                 /\ \A r \in DOMAIN rooms \cap DOMAIN rooms' :
                       (w \in rooms[r]) <=> (w \in rooms'[r])
           /\ \A c \in Conns :
                 ( /\ pc[c] \in {"recv", "handle"} /\ Acting(c)
                   /\ \A i \in 1 .. Len(stack[c]) : stack[c][i].k = "handle" ) =>
                    (rooms' = rooms /\ connection_metadata' = connection_metadata)
         ]_vars
    /\ []( /\ \A w \in DOMAIN connection_metadata : connection_metadata[w] = JoinEntry(w)
           /\ (event.kind = "dispatch" /\ event.fr.type = "auth_token") =>
                 stack[event.by] = HandleUnknown(event.by, event.fr, budget + 1, event.reg) )

\* a member that sent a second auth_token was sent the error for an unknown
\* type and its entry is the one of its join, with the client id it supplied
C32_Witness ==
    /\ event.kind = "send" /\ event.msg.type = "error" /\ event.msg.arg = "auth_token"
    /\ event.to \in Members(rooms, pathRoom[event.to])
    /\ connection_metadata[event.to] = JoinEntry(event.to)
    /\ connection_metadata[event.to].client_id \in ClientIds

\* C33: the send made to a connection whose endpoint has accepted nothing
\* yet is auth_required and auth_required is sent at no other time; the
\* send made to a connection that waits for its first frame is auth_success
\* and auth_success is sent at no other time; users_in_room is sent to a
\* connection inside connect, which follows its auth_success; and
\* user_joined, user_left, offer, answer and ice_candidate are sent only to
\* connections whose endpoint has got as far as connect.
C33_ServerMessagesOrdered ==
    [][ event'.kind = "send" =>
          LET c == event'.to
              t == event'.msg.type IN
          /\ (pc[c] = "start") <=> (t = "auth_required")
          /\ (pc[c] = "recv_auth") <=> (t = "auth_success")
          /\ t = "auth_required" => (event'.by = c /\ pc'[c] = "recv_auth")
          /\ t = "auth_success" => (event'.by = c /\ pc'[c] = "connect" /\ invoked'[c])
          /\ t = "users_in_room" => (event'.by = c /\ pc[c] = "connect" /\ invoked[c])
          /\ t \in {"user_joined", "user_left"} \cup RelayTypes => invoked[c]
      ]_vars

\* a connection that was challenged, authenticated and told who is in its
\* room is sent the user_joined of a later joiner
C33_Witness ==
    /\ event.kind = "send" /\ event.msg.type = "user_joined"
    /\ event.to = 2 /\ event.by = 3
    /\ joins[pathRoom[2]] = NumConns /\ leaves[pathRoom[2]] = 0

\* C34: while disconnect(ws, room) waits for its user_left broadcast, ws is
\* not in the room's member set and no broadcast started from it, nested
\* ones included, is sending to ws; a user_left is never handed to a send
\* to the connection it is about; and a task running its own clean-up
\* makes no send to its own connection.
C34_CleanupNeverSendsToLeaver ==
    /\ \A c \in Conns : \A i \in 1 .. Len(stack[c]) :
          stack[c][i].k = "disc" =>
             /\ stack[c][i].ws \notin Members(rooms, stack[c][i].room)
             /\ \A j \in (i + 1) .. Len(stack[c]) :
                   stack[c][j].k = "bcast" => stack[c][j].cur # stack[c][i].ws
    /\ \A f \in Frames :
          (f.k = "bcast" /\ f.msg.type = "user_left") =>
             /\ f.cur # f.msg.about
             /\ f.msg.about \notin f.sent \cup f.failed
    /\ (event.kind \in {"send", "send_failed"} /\ event.msg.type = "user_left") =>
          event.to # event.msg.about
    /\ (event.kind \in {"send", "send_failed"} /\ pc[event.by] = "cleanup") =>
          event.to # event.by

\* the endpoint of a departing connection, in its clean-up, has sent the
\* user_left about it to one of the two members that remain
C34_Witness ==
    /\ event.kind = "send" /\ event.msg.type = "user_left"
    /\ event.by = event.msg.about /\ pc[event.by] = "cleanup"
    /\ Cardinality(Members(rooms, pathRoom[event.by])) = 2
    /\ event.to \in Members(rooms, pathRoom[event.by])

\* the messages that travel between the members of a room
RoomTraffic == RelayTypes \cup {"user_joined", "user_left"}

\* C35: a relayed offer, answer or ice_candidate, a user_joined and a
\* user_left are sent, or tried, only to connections of the room of the
\* connection they come from; a membership message names that room; the
\* recipient a broadcast turns to, and the target a directed frame is
\* resolved to, is a member of that room at that moment.
C35_NoCrossRoomTraffic ==
    /\ [][ \A c \in Conns :
              /\ ( /\ stack'[c] # << >> /\ stack'[c] # stack[c]
                   /\ Top(stack'[c]).k = "bcast" /\ Top(stack'[c]).pos = "send" ) =>
                    /\ Top(stack'[c]).cur \in Members(rooms, Top(stack'[c]).room)
                    /\ Top(stack'[c]).room = pathRoom[c]
              /\ ( /\ event'.kind = "dispatch" /\ event'.by = c /\ event'.found ) =>
                    event'.target \in Members(rooms, pathRoom[c])
          ]_vars
    /\ []( /\ ( /\ event.kind \in {"send", "send_failed"}
                /\ event.msg.type \in RoomTraffic ) =>
                 /\ pathRoom[event.to] = pathRoom[event.msg.about]
                 /\ pathRoom[event.to] = pathRoom[event.by]
                 /\ invoked[event.to]
                 /\ event.msg.type \notin RelayTypes => event.msg.room_id = pathRoom[event.to]
           /\ \A f \in Frames :
                 /\ f.k = "bcast" => f.room = pathRoom[f.msg.about]
                 /\ (f.k = "handle" /\ f.pos = "send" /\ f.msg.type \in RelayTypes) =>
                       pathRoom[f.target] = pathRoom[f.msg.about] )

\* an offer naming client id a was delivered to the member of r1 that has
\* it while the member of r2 has the same client id
C35_Witness ==
    /\ event.kind = "send" /\ event.msg.type = "offer" /\ event.msg.arg \in ClientIds
    /\ pathRoom[event.to] = "r1"
    /\ \E w \in Members(rooms, "r2") :
          /\ w \in DOMAIN connection_metadata
          /\ connection_metadata[w].client_id = event.msg.arg

\* C36: a step that delivers an offer, answer or ice_candidate to a member
\* of the sender's room is made for a frame whose sender was registered when
\* its receive loop handed the frame to handle_message.
C36_OnlyMembersCauseDelivery ==
    [][ ( /\ event'.kind = "send" /\ event' # event
          /\ event'.msg.type \in RelayTypes
          /\ event'.to \in Members(rooms, pathRoom[event'.by]) ) =>
            /\ stack[event'.by] # << >>
            /\ stack[event'.by][1].k = "handle"
            /\ stack[event'.by][1].reg
      ]_vars

\* the calls of broadcast_to_room and disconnect a task is inside of
Nesting(c) == Cardinality({i \in DOMAIN stack[c] : stack[c][i].k \in {"bcast", "disc"}})

\* C37: a broadcast, with the disconnects and user_left broadcasts nested
\* in its clean-up, is a finite chain of calls, and when a call of
\* broadcast_to_room has ended no connection that one of its sends failed
\* on is a member of the room.
C37_BroadcastEndsClean ==
    /\ \A c \in Conns : Nesting(c) <= 2 * NumConns
    /\ event.kind = "bcast_end" => event.failed \cap Members(rooms, event.room) = {}

\* the endpoint of connection c has passed add_connection (main.py:186) and
\* not yet remove_connection (main.py:304)
Running(c) == pc[c] \notin {"absent", "start", "done"}

\* C38: connections_per_ip holds, for each address, exactly the connection
\* ids of the endpoints that are running for it: an id is there from
\* add_connection on, whatever way the endpoint takes, and gone once the
\* endpoint has ended; no address is kept with an empty set.
C38_TrackingReleased ==
    /\ \A ip \in DOMAIN connections_per_ip : connections_per_ip[ip] # {}
    /\ \A c \in Conns :
          Running(c) <=> ( /\ client_ip(c) \in DOMAIN connections_per_ip
                           /\ connection_id(c) \in connections_per_ip[client_ip(c)] )

\* the endpoint of connection 1 has ended after it had joined, that of
\* connection 2 has ended too, and only connection 3 is still tracked,
\* under the address it shares with connection 2
C38_Witness ==
    /\ pc[1] = "done" /\ invoked[1] /\ pc[2] = "done"
    /\ DOMAIN connections_per_ip = {client_ip(3)}
    /\ connections_per_ip[client_ip(3)] = {connection_id(3)}

\* the failures held for an address that are no older than the lockout
RecentFailures(ip) ==
    Cardinality({i \in DOMAIN failed_auth[ip] :
                    now - failed_auth[ip][i] <= auth_lockout_duration})

\* C39: an endpoint that starts for an address with max_auth_failures or
\* more failures recorded within the last auth_lockout_duration seconds, and
\* not cleared since, closes its transport with the blocked reason and ends
\* without being tracked, registered or sent anything; with fewer such
\* failures it is tracked and goes on to the challenge.  An endpoint that
\* has ended is sent nothing.  An address is closed this way only when at
\* least max_auth_failures failures were recorded since its last clear.
C39_BlockedBeforeAccept ==
    /\ [][ \A c \in Conns :
              /\ (pc[c] = "start" /\ pc'[c] # "start") =>
                    IF RecentFailures(client_ip(c)) >= max_auth_failures
                    THEN /\ pc'[c] = "done"
                         /\ event' = CloseEvent(c, PolicyViolation, BlockedReason)
                         /\ UNCHANGED <<connections_per_ip, rooms, connection_metadata,
                                        invoked, cred>>
                    ELSE /\ pc'[c] \in {"recv_auth", "finally"}
                         /\ event'.kind \in {"send", "send_failed"}
                         /\ event'.msg = AuthRequiredMsg
                         /\ connection_id(c) \in connections_per_ip'[client_ip(c)]
              /\ pc[c] = "done" =>
                    /\ pc'[c] = "done"
                    /\ ~(event'.kind = "send" /\ event' # event /\ event'.to = c)
          ]_vars
    /\ []( (event.kind = "close" /\ event.reason = BlockedReason) =>
              /\ pc[event.by] = "done" /\ ~invoked[event.by]
              /\ cred[event.by] = NoAuthFrame
              /\ event.by \notin AllMembers(rooms)
              /\ event.by \notin DOMAIN connection_metadata
              /\ recorded[client_ip(event.by)] >= max_auth_failures )

\* an address was closed before the handshake after its fifth failure had
\* been recorded by an endpoint that ran to its end, with time having passed
C39_Witness ==
    /\ event.kind = "close" /\ event.reason = BlockedReason
    /\ rejects = 1 /\ now > 1
    /\ RecentFailures(client_ip(event.by)) = max_auth_failures
    /\ recorded[client_ip(event.by)] = max_auth_failures
    /\ \E d \in Conns \ {event.by} : pc[d] = "done" /\ client_ip(d) = client_ip(event.by)

\* the frames ever admitted for an address with a time stamp in [t, t + message_window]
AdmittedIn(ip, t) ==
    Cardinality({i \in DOMAIN admitted[ip] :
                    admitted[ip][i] >= t /\ admitted[ip][i] <= t + message_window})

\* C40: a call of check_message_rate returns True exactly when fewer than
\* max_messages_per_minute frames admitted for the address have a time
\* stamp no older than message_window seconds; it then records the time of
\* the call and nothing else; a call that returns False records nothing;
\* neither touches another address; no window of message_window seconds
\* holds more than max_messages_per_minute admitted frames of an address.
C40_RateWindow ==
    /\ [][ \A ip \in Ips :
              (budget' # budget /\ event'.kind = "rate" /\ event'.ip = ip) =>
                 /\ event'.result = (AdmittedIn(ip, now - message_window) < max_messages_per_minute)
                 /\ admitted'[ip] = IF event'.result THEN Append(admitted[ip], now)
                                    ELSE admitted[ip]
                 /\ Len(message_counts'[ip]) = AdmittedIn(ip, now - message_window)
                                                 + (IF event'.result THEN 1 ELSE 0)
                 /\ \A i \in DOMAIN message_counts'[ip] :
                       message_counts'[ip][i] =
                           admitted'[ip][Len(admitted'[ip]) - Len(message_counts'[ip]) + i]
                 /\ \A o \in Ips \ {ip} :
                       message_counts'[o] = message_counts[o] /\ admitted'[o] = admitted[o]
          ]_vars
    /\ [](\A ip \in Ips : \A i \in DOMAIN admitted[ip] :
              AdmittedIn(ip, admitted[ip][i]) <= max_messages_per_minute)

\* a call was refused at the limit, the oldest admitted frames being
\* exactly message_window seconds old, after a call had been admitted at
\* time 1 (no earlier frames leave two stamps of that time)
C40_Witness ==
    /\ event.kind = "rate" /\ ~event.result
    /\ Len(message_counts[event.ip]) = max_messages_per_minute
    /\ now - Head(message_counts[event.ip]) = message_window
    /\ message_counts[event.ip][max_messages_per_minute] = 1
    /\ message_counts[event.ip][max_messages_per_minute - 1] = 1

====
